---- MODULE Spec2Model ----
(***************************************************************************)
(* A model of the scene composition and shader-parameter binding code of   *)
(* cs330-opengl-scene-project (Source/SceneManager.cpp, SceneManager.h)    *)
(* and of its view and projection code (Source/ViewManager.cpp,            *)
(* ViewManager.h).                                                         *)
(*                                                                         *)
(* Floats are represented as integers in hundredths (0.35f is 35, 50.0f is *)
(* 5000); rotation angles are whole degrees.  Strings are strings.         *)
(***************************************************************************)
EXTENDS Integers, Sequences, FiniteSets, TLC

(***************************************************************************)
(* Bounds of the model.                                                    *)
(***************************************************************************)
\* CreateGLTexture and DestroyGLTextures calls explored by the
\* texture-registry specification
MaxCreates == 3
\* DefineObjectMaterials calls explored by the shader-binding specification
MaxDefines == 2
\* PrepareScene calls explored by the scene specification
MaxPrepares == 2
\* image files of LoadSceneTextures that may be unreadable or unsupported
MaxBadFiles == 1
\* PrepareSceneView frames and ViewManager constructions explored by the
\* view specification
MaxFrames == 2

(***************************************************************************)
(* Program constants.                                                      *)
(***************************************************************************)
\* TEXTURE_INFO m_textureIDs[16]
ArraySize == 16
\* m_pShaderManager = NULL
NULL == "NULL"
\* a live ShaderManager object
ShaderMgr == "ShaderManager"
\* the null pointer to an object the model holds as a record (the camera,
\* the GLFW window); the deleted ViewManager
nullptr == [null |-> TRUE]

\* The values an uninitialised int/uint32/float member can hold: memory that
\* happens to be zero, a small positive pattern, and an all-ones pattern.
GarbageFill == {-1, 0, 15}

\* Tags the private lookups and setters are exercised with.
Tags == {"a", "b", "c"}
LookupTags == Tags \cup {""}

\* stbi_load results: 0 is "could not load", otherwise the channel count.
Channels == 0..4

\* A 32-bit word (int m_loadedTextures, uint32_t ID) is represented by the
\* value its bits have as a signed int, so the uint32_t -> int conversion of
\* FindTextureID (textureID = m_textureIDs[index].ID), which keeps the bits,
\* keeps the representation: the ID 0xFFFFFFFF is -1 on both sides.

VARIABLES
    m_pShaderManager,   \* pointer to shader manager object
    m_loadedTextures,   \* total number of loaded textures
    m_textureIDs,       \* loaded textures info: index -> [tag, ID]
    m_objectMaterials,  \* defined object materials
    lightPositions,     \* light positions for the colour cubes
    uniforms,           \* named uniforms held by the shader program
    gl,                 \* GPU / decoder resources
    files,              \* channel count stbi_load yields for each image file
    pc,                 \* position of the caller: [fn, i]
    drawn,              \* the latest draw call and the calls that led to it
    locals,             \* the local variables of RenderScene
    last,               \* the latest call of a SceneManager method
    ncalls,             \* calls counted against the bounds
    crashed,            \* the process was terminated by an invalid memory access
    viewManager,        \* the ViewManager object: its members, or nullptr once deleted
    g_pCamera,          \* camera object used for viewing the 3D scene, or nullptr
    gLastX,             \* last mouse position, X
    gLastY,             \* last mouse position, Y
    gFirstMouse,        \* no mouse-position event was handled yet
    gDeltaTime,         \* time between current frame and last frame
    gLastFrame,         \* time of the last frame
    bOrthographicProjection,  \* orthographic projection is on
    window              \* the GLFW window with the mouse callbacks, or nullptr

vars == <<m_pShaderManager, m_loadedTextures, m_textureIDs, m_objectMaterials,
          lightPositions, uniforms, gl, files, pc, drawn, locals, last, ncalls,
          crashed, viewManager, g_pCamera, gLastX, gLastY, gFirstMouse,
          gDeltaTime, gLastFrame, bOrthographicProjection, window>>

registry == <<m_loadedTextures, m_textureIDs>>

\* the ViewManager object and the globals of ViewManager.cpp
viewState == <<viewManager, g_pCamera, gLastX, gLastY, gFirstMouse, gDeltaTime,
               gLastFrame, bOrthographicProjection, window>>

\* the SceneManager object
sceneManager == <<m_pShaderManager, m_loadedTextures, m_textureIDs,
                  m_objectMaterials, lightPositions>>

(***************************************************************************)
(* Texture registry                                                        *)
(***************************************************************************)
InArray(i) == i \in 0..(ArraySize - 1)

\* a variant that uploads every decoded image, whatever its channel count
ChannelsSupportedAny(colorChannels) == colorChannels >= 1

\* if (colorChannels == 3) ... else if (colorChannels == 4) ... else return false
ChannelsSupported(colorChannels) == colorChannels = 3 \/ colorChannels = 4

\* the return value of CreateGLTexture
CreateGLTextureRet(colorChannels) ==
    colorChannels # 0 /\ ChannelsSupported(colorChannels)

\* m_textureIDs[m_loadedTextures].ID = textureID; ....tag = tag
RegisterAt(index, textureID, tag) ==
    [i \in (DOMAIN m_textureIDs) \cup {index} |->
        IF i = index THEN [tag |-> tag, ID |-> textureID] ELSE m_textureIDs[i]]

\* the index CreateGLTexture stores the new entry at
NextSlot == m_loadedTextures

\* glBindTexture(GL_TEXTURE_2D, texture): the texture becomes the binding of
\* the active texture unit of the GL state g
BindTexture(g, texture) ==
    [g EXCEPT !.units = [i \in (DOMAIN g.units) \cup {g.active} |->
                            IF i = g.active THEN texture ELSE g.units[i]]]

\* glActiveTexture(GL_TEXTURE0 + i)
ActiveTexture(g, i) == [g EXCEPT !.active = i]

\* glGenTextures(1, &textureID): the handle gl.nextID is allocated
GenTexture(g) == [g EXCEPT !.nextID = @ + 1, !.textures = @ \cup {g.nextID}]

\* CreateGLTexture(filename, tag), where colorChannels is what stbi_load
\* yields for filename (0: image == NULL).  survives tells whether a store
\* outside m_textureIDs[0..15] lets the process continue.
CreateGLTexture(colorChannels, tag, survives) ==
    IF colorChannels = 0
    THEN \* "Could not load image"
         /\ UNCHANGED <<m_loadedTextures, m_textureIDs, gl, crashed>>
    ELSE IF ~ChannelsSupported(colorChannels)
    THEN \* glGenTextures, glBindTexture, then return false before
         \* stbi_image_free and before the unbind
         /\ gl' = [BindTexture(GenTexture(gl), gl.nextID) EXCEPT !.images = @ + 1]
         /\ UNCHANGED <<m_loadedTextures, m_textureIDs, crashed>>
    ELSE \* glGenTextures, glBindTexture(textureID), upload, glBindTexture(0)
         /\ gl' = BindTexture(BindTexture(GenTexture(gl), gl.nextID), 0)
         /\ IF InArray(NextSlot) \/ survives
            THEN /\ m_textureIDs' = RegisterAt(NextSlot, gl.nextID, tag)
                 /\ m_loadedTextures' = m_loadedTextures + 1
                 /\ UNCHANGED crashed
            ELSE /\ crashed' = TRUE
                 /\ UNCHANGED <<m_loadedTextures, m_textureIDs>>

\* while ((index < m_loadedTextures) && (bFound == false)) of FindTextureSlot
RECURSIVE FindTextureSlotFrom(_, _)
FindTextureSlotFrom(tag, index) ==
    IF index < m_loadedTextures
    THEN IF m_textureIDs[index].tag = tag
         THEN index
         ELSE FindTextureSlotFrom(tag, index + 1)
    ELSE -1

\* a variant whose scan does not stop at the first match
RECURSIVE FindTextureSlotLastFrom(_, _, _)
FindTextureSlotLastFrom(tag, index, textureSlot) ==
    IF index < m_loadedTextures
    THEN FindTextureSlotLastFrom(tag, index + 1,
             IF m_textureIDs[index].tag = tag THEN index ELSE textureSlot)
    ELSE textureSlot

FindTextureSlotLast(tag) == FindTextureSlotLastFrom(tag, 0, -1)

FindTextureSlot(tag) == FindTextureSlotFrom(tag, 0)

\* while ((index < m_loadedTextures) && (bFound == false)) of FindTextureID
RECURSIVE FindTextureIDFrom(_, _)
FindTextureIDFrom(tag, index) ==
    IF index < m_loadedTextures
    THEN IF m_textureIDs[index].tag = tag
         THEN m_textureIDs[index].ID
         ELSE FindTextureIDFrom(tag, index + 1)
    ELSE -1

FindTextureID(tag) == FindTextureIDFrom(tag, 0)

\* for (i = 0; i < m_loadedTextures; i++) { glActiveTexture(GL_TEXTURE0 + i);
\*   glBindTexture(GL_TEXTURE_2D, m_textureIDs[i].ID); }
RECURSIVE BindGLTexturesFrom(_, _)
BindGLTexturesFrom(g, i) ==
    IF i < m_loadedTextures
    THEN BindGLTexturesFrom(BindTexture(ActiveTexture(g, i), m_textureIDs[i].ID),
                            i + 1)
    ELSE g

\* a variant that never selects the texture unit before it binds
RECURSIVE BindGLTexturesOneUnitFrom(_, _)
BindGLTexturesOneUnitFrom(g, i) ==
    IF i < m_loadedTextures
    THEN BindGLTexturesOneUnitFrom(BindTexture(g, m_textureIDs[i].ID), i + 1)
    ELSE g

BindGLTexturesOneUnit == gl' = BindGLTexturesOneUnitFrom(gl, 0)

\* a variant that selects the unit after the active one instead of unit i
RECURSIVE BindGLTexturesNextUnitFrom(_, _)
BindGLTexturesNextUnitFrom(g, i) ==
    IF i < m_loadedTextures
    THEN BindGLTexturesNextUnitFrom(
             BindTexture(ActiveTexture(g, g.active + 1), m_textureIDs[i].ID), i + 1)
    ELSE g

BindGLTexturesNextUnit == gl' = BindGLTexturesNextUnitFrom(gl, 0)

BindGLTextures == gl' = BindGLTexturesFrom(gl, 0)

\* for (i = 0; i < m_loadedTextures; i++) glGenTextures(1, &m_textureIDs[i].ID):
\* st holds the GL state g and the entries ids
RECURSIVE DestroyGLTexturesFrom(_, _)
DestroyGLTexturesFrom(st, i) ==
    IF i < m_loadedTextures
    THEN DestroyGLTexturesFrom(
             [g |-> GenTexture(st.g),
              ids |-> [st.ids EXCEPT ![i].ID = st.g.nextID]], i + 1)
    ELSE st

DestroyGLTextures ==
    LET st == DestroyGLTexturesFrom([g |-> gl, ids |-> m_textureIDs], 0)
    IN  /\ gl' = st.g
        /\ m_textureIDs' = st.ids
        /\ UNCHANGED m_loadedTextures

\* SceneManager::~SceneManager(): m_pShaderManager = NULL;
\* delete m_basicMeshes; m_basicMeshes = NULL
Destructor ==
    /\ m_pShaderManager' = NULL
    /\ gl' = [gl EXCEPT !.meshes = 0]
    /\ UNCHANGED <<registry, m_objectMaterials, lightPositions, uniforms>>

(***************************************************************************)
(* Material catalog                                                        *)
(***************************************************************************)
\* the five fields of OBJECT_MATERIAL that reach the shader
MaterialFields(m) ==
    [ambientColor |-> m.ambientColor, ambientStrength |-> m.ambientStrength,
     diffuseColor |-> m.diffuseColor, specularColor |-> m.specularColor,
     shininess |-> m.shininess]

\* an OBJECT_MATERIAL whose floats all hold the bit pattern g
FillMaterial(g) ==
    [ambientColor |-> <<g, g, g>>, ambientStrength |-> g,
     diffuseColor |-> <<g, g, g>>, specularColor |-> <<g, g, g>>,
     shininess |-> g]

\* What the uninitialised local "OBJECT_MATERIAL material" of
\* SetShaderMaterial can hold: whatever is on the stack, such as the
\* material a previous call left there, or any fill pattern.
StackGarbage == {uniforms.material} \cup {FillMaterial(g) : g \in GarbageFill}

\* the materials pushed by DefineObjectMaterials, in order
SeedMaterials ==
    << [tag |-> "shiny", ambientColor |-> <<30, 30, 30>>, ambientStrength |-> 70,
        diffuseColor |-> <<80, 70, 20>>, specularColor |-> <<50, 50, 50>>,
        shininess |-> 5000],
       [tag |-> "shinyish", ambientColor |-> <<30, 30, 30>>, ambientStrength |-> 50,
        diffuseColor |-> <<80, 70, 20>>, specularColor |-> <<50, 50, 50>>,
        shininess |-> 2500],
       [tag |-> "porcelaine", ambientColor |-> <<30, 30, 30>>, ambientStrength |-> 50,
        diffuseColor |-> <<80, 70, 20>>, specularColor |-> <<50, 50, 50>>,
        shininess |-> 1600],
       [tag |-> "dull", ambientColor |-> <<30, 30, 30>>, ambientStrength |-> 60,
        diffuseColor |-> <<80, 70, 20>>, specularColor |-> <<50, 50, 50>>,
        shininess |-> 100],
       [tag |-> "void", ambientColor |-> <<0, 0, 0>>, ambientStrength |-> 0,
        diffuseColor |-> <<0, 0, 0>>, specularColor |-> <<0, 0, 0>>,
        shininess |-> 0] >>

\* a variant without the block of the void material
DefineObjectMaterialsNoVoid ==
    m_objectMaterials' = m_objectMaterials \o SubSeq(SeedMaterials, 1, 4)

\* m_objectMaterials.push_back(...) five times
DefineObjectMaterials == m_objectMaterials' = m_objectMaterials \o SeedMaterials

\* the value FindMaterial returns after its loop
FindMaterialRet(bFound) == TRUE

\* while ((index < m_objectMaterials.size()) && (bFound == false)):
\* index is the C++ zero-based index, material the out-parameter so far
RECURSIVE FindMaterialFrom(_, _, _)
FindMaterialFrom(tag, index, material) ==
    IF index < Len(m_objectMaterials)
    THEN IF m_objectMaterials[index + 1].tag = tag
         THEN [ret |-> FindMaterialRet(TRUE),
               material |-> MaterialFields(m_objectMaterials[index + 1])]
         ELSE FindMaterialFrom(tag, index + 1, material)
    ELSE [ret |-> FindMaterialRet(FALSE), material |-> material]

\* bool FindMaterial(std::string tag, OBJECT_MATERIAL& material): the result
\* and the content of the out-parameter, which is left as the caller passed
\* it when nothing is copied into it
FindMaterial(tag, material) ==
    IF Len(m_objectMaterials) = 0
    THEN [ret |-> FALSE, material |-> material]
    ELSE FindMaterialFrom(tag, 0, material)

\* the record of a call of a SceneManager method: its name, its tag and
\* vector arguments, and its result
NoCall == [op |-> "", tag |-> "", vec |-> <<>>, ret |-> 0,
           mat |-> FillMaterial(0)]
Call(op, tag, vec, ret) ==
    [op |-> op, tag |-> tag, vec |-> vec, ret |-> ret, mat |-> FillMaterial(0)]
Bool(b) == IF b THEN 1 ELSE 0

(***************************************************************************)
(* Shader binding: each setter maps the uniforms u to the uniforms after   *)
(* the call.                                                               *)
(***************************************************************************)
\* A glm::mat4 is the tuple of its four rows, each entry in hundredths like
\* every float of the model; a product of two entries is brought back to
\* hundredths, rounding towards zero.
Hundredths(x) == IF x >= 0 THEN x \div 100 ELSE -((-x) \div 100)

\* glm::mat4 operator*
MatEntry(A, B, i, j) ==
    Hundredths(A[i][1] * B[1][j] + A[i][2] * B[2][j]
               + A[i][3] * B[3][j] + A[i][4] * B[4][j])
MatRow(A, B, i) ==
    <<MatEntry(A, B, i, 1), MatEntry(A, B, i, 2), MatEntry(A, B, i, 3),
      MatEntry(A, B, i, 4)>>
MatMul(A, B) == <<MatRow(A, B, 1), MatRow(A, B, 2), MatRow(A, B, 3), MatRow(A, B, 4)>>

\* glm::radians(degrees), in thousandths of a radian (pi/180 = 0.017453)
Radians(degrees) ==
    IF degrees >= 0 THEN (degrees * 17453) \div 1000
    ELSE -((-degrees * 17453) \div 1000)

\* cos and sin of an angle in thousandths of a radian, in hundredths, for
\* the angles the scene and the projections use
Cos(angle) ==
    CASE angle = 0 -> 100
      [] angle = 785 -> 71
      [] angle = 916 -> 61
      [] angle = 1570 -> 0
      [] angle = -1570 -> 0
      [] angle = 3141 -> -100

Sin(angle) ==
    CASE angle = 0 -> 0
      [] angle = 785 -> 71
      [] angle = 916 -> 79
      [] angle = 1570 -> 100
      [] angle = -1570 -> -100
      [] angle = 3141 -> 0

\* glm::scale(scaleXYZ)
Scale(v) ==
    << <<v[1], 0, 0, 0>>, <<0, v[2], 0, 0>>, <<0, 0, v[3], 0>>, <<0, 0, 0, 100>> >>

\* glm::translate(positionXYZ)
Translate(v) ==
    << <<100, 0, 0, v[1]>>, <<0, 100, 0, v[2]>>, <<0, 0, 100, v[3]>>,
       <<0, 0, 0, 100>> >>

\* glm::rotate(angle, glm::vec3(1.0f, 0.0f, 0.0f))
RotateX(angle) ==
    << <<100, 0, 0, 0>>, <<0, Cos(angle), -Sin(angle), 0>>,
       <<0, Sin(angle), Cos(angle), 0>>, <<0, 0, 0, 100>> >>

\* glm::rotate(angle, glm::vec3(0.0f, 1.0f, 0.0f))
RotateY(angle) ==
    << <<Cos(angle), 0, Sin(angle), 0>>, <<0, 100, 0, 0>>,
       <<-Sin(angle), 0, Cos(angle), 0>>, <<0, 0, 0, 100>> >>

\* glm::rotate(angle, glm::vec3(0.0f, 0.0f, 1.0f))
RotateZ(angle) ==
    << <<Cos(angle), -Sin(angle), 0, 0>>, <<Sin(angle), Cos(angle), 0, 0>>,
       <<0, 0, 100, 0>>, <<0, 0, 0, 100>> >>

\* a variant that multiplies the five factors in the opposite order
ModelMatrixReversed(scaleXYZ, X, Y, Z, positionXYZ) ==
    LET scale == Scale(scaleXYZ)
        rotationX == RotateX(Radians(X))
        rotationY == RotateY(Radians(Y))
        rotationZ == RotateZ(Radians(Z))
        translation == Translate(positionXYZ)
    IN  MatMul(MatMul(MatMul(MatMul(scale, rotationZ), rotationY), rotationX),
               translation)

\* modelView = translation * rotationX * rotationY * rotationZ * scale
ModelMatrix(scaleXYZ, X, Y, Z, positionXYZ) ==
    LET scale == Scale(scaleXYZ)
        rotationX == RotateX(Radians(X))
        rotationY == RotateY(Radians(Y))
        rotationZ == RotateZ(Radians(Z))
        translation == Translate(positionXYZ)
    IN  MatMul(MatMul(MatMul(MatMul(translation, rotationX), rotationY), rotationZ),
               scale)

SetTransformations(u, scaleXYZ, X, Y, Z, positionXYZ) ==
    IF NULL # m_pShaderManager
    THEN [u EXCEPT !.model = ModelMatrix(scaleXYZ, X, Y, Z, positionXYZ)]
    ELSE u

\* a variant that also resets the sampler index
SetShaderColorResetsSampler(u, currentColor) ==
    IF NULL # m_pShaderManager
    THEN [u EXCEPT !.bUseTexture = FALSE, !.objectColor = currentColor,
                   !.objectTexture = 0]
    ELSE u

\* a variant that writes the colour and leaves the texture flag alone
SetShaderColorKeepsFlag(u, currentColor) ==
    IF NULL # m_pShaderManager
    THEN [u EXCEPT !.objectColor = currentColor]
    ELSE u

SetShaderColor(u, currentColor) ==
    IF NULL # m_pShaderManager
    THEN [u EXCEPT !.bUseTexture = FALSE, !.objectColor = currentColor]
    ELSE u

\* a variant that leaves the sampler alone when the tag is not found
SetShaderTextureSkipsMiss(u, textureTag) ==
    IF NULL # m_pShaderManager
    THEN IF FindTextureSlot(textureTag) = -1
         THEN [u EXCEPT !.bUseTexture = TRUE]
         ELSE [u EXCEPT !.bUseTexture = TRUE,
                        !.objectTexture = FindTextureSlot(textureTag)]
    ELSE u

SetShaderTexture(u, textureTag) ==
    IF NULL # m_pShaderManager
    THEN [u EXCEPT !.bUseTexture = TRUE,
                   !.objectTexture = FindTextureSlot(textureTag)]
    ELSE u

SetTextureUVScale(u, uv) ==
    IF NULL # m_pShaderManager
    THEN [u EXCEPT !.UVscale = uv]
    ELSE u

\* material is the content of the uninitialised local before FindMaterial
SetShaderMaterial(u, materialTag, material) ==
    IF Len(m_objectMaterials) > 0
    THEN LET r == FindMaterial(materialTag, material)
         IN  IF r.ret = TRUE
             THEN [u EXCEPT !.material = r.material]
             ELSE u
    ELSE u

(***************************************************************************)
(* Lights                                                                  *)
(***************************************************************************)
\* the positions SetupSceneLights stores into lightPositions[0..3]
ScenePositions ==
    << <<-10000, 4000, 5000>>, <<-15000, 4000, -2500>>,
       <<10000, 2000, 1000>>, <<2000, 5000, -10000>> >>

Light(position, ambient, diffuse, specular, focalStrength, intensity) ==
    [position |-> position, ambientColor |-> ambient,
     diffuseColor |-> diffuse, specularColor |-> specular,
     focalStrength |-> focalStrength, specularIntensity |-> intensity]

\* m_pShaderManager->setVec3Value / setFloatValue("lightSources[slot].field",
\* value), as a statement of SetupSceneLights
SetLight(slot, field, value, line) ==
    [slot |-> slot, field |-> field, value |-> value, line |-> line]

\* the statements of SetupSceneLights that write lightSources[0..4], in
\* source order; positions is the member lightPositions they read
LightStatements(positions) ==
    <<
       SetLight(0, "position", positions[1], 631),
       SetLight(0, "ambientColor", <<0, 0, 0>>, 632),
       SetLight(0, "diffuseColor", <<0, 0, 0>>, 633),
       SetLight(0, "specularColor", <<0, 0, 0>>, 634),
       SetLight(0, "focalStrength", 5000, 635),
       SetLight(0, "specularIntensity", 40, 636),
       SetLight(1, "position", positions[2], 639),
       SetLight(1, "ambientColor", <<0, 0, 10>>, 640),
       SetLight(1, "diffuseColor", <<0, 0, 0>>, 641),
       SetLight(1, "specularColor", <<0, 0, 0>>, 642),
       SetLight(1, "focalStrength", 3000, 643),
       SetLight(1, "specularIntensity", 10, 644),
       SetLight(2, "position", positions[3], 647),
       SetLight(2, "ambientColor", <<0, 0, 30>>, 648),
       SetLight(2, "diffuseColor", <<0, 0, 20>>, 649),
       SetLight(2, "specularColor", <<0, 0, 200>>, 650),
       SetLight(2, "focalStrength", 10000, 651),
       SetLight(2, "specularIntensity", 100, 652),
       SetLight(3, "position", positions[4], 655),
       SetLight(3, "ambientColor", <<0, 0, 0>>, 656),
       SetLight(3, "diffuseColor", <<0, 0, 0>>, 657),
       SetLight(3, "specularColor", <<0, 0, 0>>, 658),
       SetLight(3, "focalStrength", 1200, 659),
       SetLight(3, "specularIntensity", 20, 660),
       SetLight(4, "position", <<-3000, 4000, 3000>>, 663),
       SetLight(4, "ambientColor", <<0, 0, 0>>, 664),
       SetLight(4, "diffuseColor", <<0, 0, 0>>, 665),
       SetLight(4, "specularColor", <<30, 30, 30>>, 666),
       SetLight(4, "focalStrength", 3000, 667),
       SetLight(4, "specularIntensity", 30, 668)
    >>

\* the uniforms u after the statements from the n-th on
RECURSIVE SetLightsFrom(_, _, _)
SetLightsFrom(u, statements, n) ==
    IF n > Len(statements) THEN u
    ELSE SetLightsFrom(
             [u EXCEPT !.lightSources[statements[n].slot + 1][statements[n].field] =
                           statements[n].value],
             statements, n + 1)

\* the lightSources uniforms the statements name, in the order written
LightNames(statements) ==
    [n \in 1..Len(statements) |-> <<statements[n].slot, statements[n].field>>]

\* a variant that configures only the four lights that have a cube
SetupSceneLightsFourLights ==
    LET statements == SelectSeq(LightStatements(ScenePositions),
                                LAMBDA s : s.slot < 4)
    IN  /\ lightPositions' = ScenePositions
        /\ uniforms' = SetLightsFrom([uniforms EXCEPT !.bUseLighting = TRUE],
                                     statements, 1)
        /\ last' = Call("SetupSceneLights", "", LightNames(statements), 0)

\* setBoolValue(g_UseLightingName, true), the four lightPositions stores,
\* then the thirty lightSources writes; the call is recorded with the names
\* of the lightSources uniforms it wrote
SetupSceneLights ==
    LET statements == LightStatements(ScenePositions)
    IN  /\ lightPositions' = ScenePositions
        /\ uniforms' = SetLightsFrom([uniforms EXCEPT !.bUseLighting = TRUE],
                                     statements, 1)
        /\ last' = Call("SetupSceneLights", "", LightNames(statements), 0)

(***************************************************************************)
(* View and projection (ViewManager.cpp)                                   *)
(***************************************************************************)
\* a / b for floats in hundredths, rounded towards zero
Quot(a, b) ==
    IF (a >= 0) = (b >= 0)
    THEN ((IF a >= 0 THEN a ELSE -a) * 100) \div (IF b >= 0 THEN b ELSE -b)
    ELSE -(((IF a >= 0 THEN a ELSE -a) * 100) \div (IF b >= 0 THEN b ELSE -b))

\* tan of half the field of view (thousandths of a radian), in hundredths
TanHalf(fovy) == CASE fovy = 785 -> 41

\* glm::perspective(fovy, aspect, zNear, zFar)
Perspective(fovy, aspect, zNear, zFar) ==
    << <<Quot(100, Hundredths(aspect * TanHalf(fovy))), 0, 0, 0>>,
       <<0, Quot(100, TanHalf(fovy)), 0, 0>>,
       <<0, 0, -Quot(zFar + zNear, zFar - zNear),
               -Quot(Hundredths(2 * zFar * zNear), zFar - zNear)>>,
       <<0, 0, -100, 0>> >>

\* glm::ortho(left, right, bottom, top, zNear, zFar)
Ortho(left, right, bottom, top, zNear, zFar) ==
    << <<Quot(200, right - left), 0, 0, -Quot(right + left, right - left)>>,
       <<0, Quot(200, top - bottom), 0, -Quot(top + bottom, top - bottom)>>,
       <<0, 0, -Quot(200, zFar - zNear), -Quot(zFar + zNear, zFar - zNear)>>,
       <<0, 0, 0, 100>> >>

\* ViewManager::SetPerspective on the members vm
SetPerspective(vm) ==
    [vm EXCEPT !.projection = Perspective(Radians(45), vm.aspectRatio, 10, 10000)]

\* ViewManager::SetOrthographic on the members vm: the base orthographic
\* matrix, rotated by 52.5 degrees (0.916 rad) about X and scaled by
\* (0.77, 1 / sin(angle), 1)
SetOrthographic(vm) ==
    LET orthoScale == 1000
        width == Hundredths(vm.aspectRatio * orthoScale)
        orthoProjection == Ortho(-width, width, -orthoScale, orthoScale, 10, 10000)
        angle == (Radians(52) + Radians(53)) \div 2
        rotationMatrix == RotateX(angle)
        correctionFactorX == 77
        correctionFactorY == Quot(100, Sin(angle))
        scalingMatrix == Scale(<<correctionFactorX, correctionFactorY, 100>>)
    IN  [vm EXCEPT !.projection =
            MatMul(MatMul(scalingMatrix, rotationMatrix), orthoProjection)]

\* new Camera() with the parameters the constructor assigns
NewCamera ==
    [Position |-> <<300, 1200, 1500>>, Front |-> <<0, -50, -200>>,
     Up |-> <<0, 100, 0>>, Zoom |-> 8000]

\* the members after ViewManager::ViewManager(pShaderManager); projection
\* is unset until the constructor's SetPerspective()
NewViewManager(pShaderManager) ==
    SetPerspective([m_pShaderManager |-> pShaderManager, m_pWindow |-> NULL,
                    projection |-> <<>>, aspectRatio |-> 125])

\* the keys of ProcessKeyboardEvents that move the camera, in source order,
\* each with the Camera_Movement it is processed as
MovementKeys ==
    << <<"W", "FORWARD">>, <<"S", "BACKWARD">>, <<"A", "LEFT">>,
       <<"D", "RIGHT">>, <<"Q", "UP">>, <<"E", "DOWN">> >>

\* the g_pCamera->ProcessKeyboard calls made for the pressed keys
ProcessKeyboardCalls(pressed) ==
    LET hit == SelectSeq(MovementKeys, LAMBDA k : k[1] \in pressed)
    IN  [n \in 1..Len(hit) |-> hit[n][2]]

\* a variant that tests the O key before the P key
SwitchProjectionOrthographicFirst(vm, pressed) ==
    LET afterO == IF "O" \in pressed THEN SetOrthographic(vm) ELSE vm
    IN  IF "P" \in pressed THEN SetPerspective(afterO) ELSE afterO

\* "Switch projection modes" of ProcessKeyboardEvents: P first, then O
SwitchProjection(vm, pressed) ==
    LET afterP == IF "P" \in pressed THEN SetPerspective(vm) ELSE vm
    IN  IF "O" \in pressed THEN SetOrthographic(afterP) ELSE afterP

\* bOrthographicProjection after "Switch projection modes"
SwitchFlag(flag, pressed) ==
    LET afterP == IF "P" \in pressed THEN FALSE ELSE flag
    IN  IF "O" \in pressed THEN TRUE ELSE afterP

\* g_pCamera->GetViewMatrix(): the view the camera looks along, as the
\* arguments of its lookAt
GetViewMatrix(camera) ==
    [eye |-> camera.Position,
     center |-> [i \in 1..3 |-> camera.Position[i] + camera.Front[i]],
     up |-> camera.Up]

\* the three setMat4Value / setVec3Value calls of PrepareSceneView
SetSceneView(u, vm, camera) ==
    IF vm.m_pShaderManager # NULL
    THEN [u EXCEPT !.view = GetViewMatrix(camera),
                   !.projection = vm.projection,
                   !.viewPosition = camera.Position]
    ELSE u

(***************************************************************************)
(* Construction                                                            *)
(***************************************************************************)
\* the uniforms of a freshly linked shader program (all zero)
FreshUniforms ==
    [model |-> << <<0, 0, 0, 0>>, <<0, 0, 0, 0>>, <<0, 0, 0, 0>>, <<0, 0, 0, 0>> >>,
     bUseTexture |-> FALSE,
     objectColor |-> <<0, 0, 0, 0>>,
     objectTexture |-> 0,
     UVscale |-> <<0, 0>>,
     material |-> FillMaterial(0),
     bUseLighting |-> FALSE,
     lightSources |-> [i \in 1..5 |->
         Light(<<0, 0, 0>>, <<0, 0, 0>>, <<0, 0, 0>>, <<0, 0, 0>>, 0, 0)],
     view |-> [eye |-> <<0, 0, 0>>, center |-> <<0, 0, 0>>, up |-> <<0, 0, 0>>],
     projection |-> << <<0, 0, 0, 0>>, <<0, 0, 0, 0>>, <<0, 0, 0, 0>>, <<0, 0, 0, 0>> >>,
     viewPosition |-> <<0, 0, 0>>]

At(fn, i) == [fn |-> fn, i |-> i]
Idle == [fn |-> "idle", i |-> 0]
NoDraw == [kind |-> "", line |-> 0, calls |-> <<>>]
\* float XrotationDegrees = 0.0f; ... at the entry of RenderScene
EntryLocals ==
    [scaleXYZ |-> <<0, 0, 0>>, XrotationDegrees |-> 0, YrotationDegrees |-> 0,
     ZrotationDegrees |-> 0, positionXYZ |-> <<0, 0, 0>>]

\* a variant that stops after the eleventh pair
SceneTexturesEleven ==
    << [file |-> "metal_table.jpg", tag |-> "metal_table", line |-> 492],
       [file |-> "blue_vase.jpg", tag |-> "blue_vase", line |-> 498],
       [file |-> "blue_vase3.jpg", tag |-> "blue_vase3", line |-> 501],
       [file |-> "tiger_wood.jpg", tag |-> "tiger_wood", line |-> 507],
       [file |-> "pink_matte.jpg", tag |-> "pink_matte", line |-> 513],
       [file |-> "pink_matte2.jpg", tag |-> "pink_matte2", line |-> 516],
       [file |-> "ruby4.jpg", tag |-> "ruby4", line |-> 522],
       [file |-> "ruby6.jpg", tag |-> "ruby6", line |-> 525],
       [file |-> "ruby8.jpg", tag |-> "ruby8", line |-> 528],
       [file |-> "ruby9.jpg", tag |-> "ruby9", line |-> 531],
       [file |-> "trash1.jpg", tag |-> "trash1", line |-> 537] >>

\* the image files named by LoadSceneTextures, with their tags
SceneTextures ==
    << [file |-> "metal_table.jpg", tag |-> "metal_table", line |-> 492],
       [file |-> "blue_vase.jpg", tag |-> "blue_vase", line |-> 498],
       [file |-> "blue_vase3.jpg", tag |-> "blue_vase3", line |-> 501],
       [file |-> "tiger_wood.jpg", tag |-> "tiger_wood", line |-> 507],
       [file |-> "pink_matte.jpg", tag |-> "pink_matte", line |-> 513],
       [file |-> "pink_matte2.jpg", tag |-> "pink_matte2", line |-> 516],
       [file |-> "ruby4.jpg", tag |-> "ruby4", line |-> 522],
       [file |-> "ruby6.jpg", tag |-> "ruby6", line |-> 525],
       [file |-> "ruby8.jpg", tag |-> "ruby8", line |-> 528],
       [file |-> "ruby9.jpg", tag |-> "ruby9", line |-> 531],
       [file |-> "trash1.jpg", tag |-> "trash1", line |-> 537],
       [file |-> "can_skin.jpg", tag |-> "can_skin", line |-> 540],
       [file |-> "matte_rubber.jpg", tag |-> "matte_rubber", line |-> 546],
       [file |-> "porcelain_vase.jpg", tag |-> "porcelain_vase", line |-> 549] >>

FileNames == {SceneTextures[k].file : k \in 1..Len(SceneTextures)}

\* the disks the program may run on: every image is a 3-channel JPEG except
\* for at most MaxBadFiles files that are unreadable (0) or greyscale (1)
AllGood == [f \in FileNames |-> 3]
RECURSIVE DisksWith(_)
DisksWith(k) ==
    IF k = 0 THEN {AllGood}
    ELSE LET prev == DisksWith(k - 1)
         IN  prev \cup {[d EXCEPT ![f] = b] : d \in prev, f \in FileNames, b \in {0, 1}}
Disks == DisksWith(MaxBadFiles)

\* SceneManager::SceneManager(pShaderManager): only m_pShaderManager and
\* m_basicMeshes are assigned; m_loadedTextures, the ID of every
\* m_textureIDs entry and lightPositions are left uninitialised, while the
\* std::string tags and the std::vector are default-constructed (empty).
Constructed(pShaderManager, g) ==
    /\ m_pShaderManager = pShaderManager
    /\ m_loadedTextures = g
    /\ m_textureIDs = [i \in 0..(ArraySize - 1) |-> [tag |-> "", ID |-> g]]
    /\ m_objectMaterials = <<>>
    /\ lightPositions = [i \in 1..4 |-> <<g, g, g>>]

\* ViewManager::ViewManager(pShaderManager) at program start: the globals
\* of ViewManager.cpp hold their initialisers (WINDOW_WIDTH / 2.0f,
\* WINDOW_HEIGHT / 2.0f, true, 0.0f, 0.0f, false) and no window exists yet
ViewConstructed(pShaderManager) ==
    /\ viewManager = NewViewManager(pShaderManager)
    /\ g_pCamera = NewCamera
    /\ gLastX = 70000
    /\ gLastY = 60000
    /\ gFirstMouse = TRUE
    /\ gDeltaTime = 0
    /\ gLastFrame = 0
    /\ bOrthographicProjection = FALSE
    /\ window = nullptr

\* the program before any call on the two managers
Started ==
    /\ uniforms = FreshUniforms
    /\ gl = [nextID |-> 1, textures |-> {}, images |-> 0, units |-> <<>>,
             active |-> 0, meshes |-> 0]
    /\ pc = Idle
    /\ drawn = NoDraw
    /\ locals = EntryLocals
    /\ last = NoCall
    /\ ncalls = 0
    /\ crashed = FALSE

Init ==
    /\ \E g \in GarbageFill : Constructed(ShaderMgr, g)
    /\ ViewConstructed(ShaderMgr)
    /\ files \in Disks
    /\ Started

\* one disk suffices where no file is read from it
InitAPI ==
    /\ Init
    /\ files = AllGood

scene == <<m_pShaderManager, lightPositions, files, viewState, pc, drawn, locals>>

(***************************************************************************)
(* Texture-registry specification: the private registry methods called in  *)
(* any order with any tags.                                                *)
(***************************************************************************)
CallCreateGLTexture(colorChannels, tag, survives) ==
    /\ ~crashed
    /\ pc = Idle
    /\ ncalls < MaxCreates
    /\ ncalls' = ncalls + 1
    /\ CreateGLTexture(colorChannels, tag, survives)
    /\ last' = Call("CreateGLTexture", tag, <<colorChannels>>,
                    IF crashed' THEN -1 ELSE Bool(CreateGLTextureRet(colorChannels)))
    /\ UNCHANGED <<scene, m_objectMaterials, uniforms>>

CallFindTextureSlot(tag) ==
    /\ ~crashed
    /\ pc = Idle
    /\ last' = Call("FindTextureSlot", tag, <<>>, FindTextureSlot(tag))
    /\ UNCHANGED <<scene, registry, m_objectMaterials, uniforms, gl, ncalls, crashed>>

CallFindTextureID(tag) ==
    /\ ~crashed
    /\ pc = Idle
    /\ last' = Call("FindTextureID", tag, <<>>, FindTextureID(tag))
    /\ UNCHANGED <<scene, registry, m_objectMaterials, uniforms, gl, ncalls, crashed>>

CallSetShaderTexture(tag) ==
    /\ ~crashed
    /\ pc = Idle
    /\ uniforms' = SetShaderTexture(uniforms, tag)
    /\ last' = Call("SetShaderTexture", tag, <<>>, 0)
    /\ UNCHANGED <<scene, registry, m_objectMaterials, gl, ncalls, crashed>>

\* vec counts the BindGLTextures calls made in a row, up to two
CallBindGLTextures ==
    /\ ~crashed
    /\ pc = Idle
    /\ BindGLTextures
    /\ last' = Call("BindGLTextures", "",
                    IF last.op = "BindGLTextures" THEN <<2>> ELSE <<1>>, 0)
    /\ UNCHANGED <<scene, registry, m_objectMaterials, uniforms, ncalls, crashed>>

CallDestroyGLTextures ==
    /\ ~crashed
    /\ pc = Idle
    /\ ncalls < MaxCreates
    /\ ncalls' = ncalls + 1
    /\ DestroyGLTextures
    /\ last' = Call("DestroyGLTextures", "", <<>>, 0)
    /\ UNCHANGED <<scene, m_objectMaterials, uniforms, crashed>>

\* the SceneManager is deleted: no method is called on it afterwards
CallDestructor ==
    /\ ~crashed
    /\ pc = Idle
    /\ Destructor
    /\ pc' = At("~SceneManager", 0)
    /\ last' = Call("~SceneManager", "", <<>>, 0)
    /\ UNCHANGED <<files, viewState, drawn, locals, ncalls, crashed>>

TextureNext ==
    \/ \E c \in Channels, t \in Tags, s \in BOOLEAN : CallCreateGLTexture(c, t, s)
    \/ \E t \in LookupTags : CallFindTextureSlot(t)
    \/ \E t \in LookupTags : CallFindTextureID(t)
    \/ \E t \in LookupTags : CallSetShaderTexture(t)
    \/ CallBindGLTextures
    \/ CallDestroyGLTextures
    \/ CallDestructor

TextureSpec == InitAPI /\ [][TextureNext]_vars

(***************************************************************************)
(* Shader-binding specification: the material catalog and the setters      *)
(* called in any order.                                                    *)
(***************************************************************************)
MaterialTags == {"shiny", "void", "shinyMaterial"}
Colors == {<<0, 0, 0, 100>>, <<50, 50, 50, 100>>}
Transforms ==
    {[scaleXYZ |-> <<200, 100, 50>>, X |-> 90, Y |-> 0, Z |-> -90,
      positionXYZ |-> <<500, 0, -300>>],
     [scaleXYZ |-> <<100, 300, 100>>, X |-> 180, Y |-> 90, Z |-> 90,
      positionXYZ |-> <<0, 200, 0>>],
     [scaleXYZ |-> <<100, 100, 100>>, X |-> 0, Y |-> 0, Z |-> 0,
      positionXYZ |-> <<0, 0, 0>>]}
UVScales == {<<100, 100>>, <<200, 100>>}

CallDefineObjectMaterials ==
    /\ ~crashed
    /\ ncalls < MaxDefines
    /\ ncalls' = ncalls + 1
    /\ DefineObjectMaterials
    /\ last' = Call("DefineObjectMaterials", "", <<>>, 0)
    /\ UNCHANGED <<scene, registry, uniforms, gl, crashed>>

CallFindMaterial(tag, material) ==
    /\ ~crashed
    /\ LET r == FindMaterial(tag, material)
       IN  last' = [Call("FindMaterial", tag, <<>>, Bool(r.ret)) EXCEPT
                        !.mat = r.material]
    /\ UNCHANGED <<scene, registry, m_objectMaterials, uniforms, gl, ncalls, crashed>>

\* SetShaderMaterial has no check of m_pShaderManager: with a null shader
\* manager its first setVec3Value call goes through the null pointer, and
\* either ends the process or goes unnoticed with the calls after it
CallSetShaderMaterial(tag, material, survives) ==
    /\ ~crashed
    /\ IF /\ m_pShaderManager = NULL
          /\ Len(m_objectMaterials) > 0
          /\ FindMaterial(tag, material).ret = TRUE
       THEN /\ crashed' = ~survives
            /\ last' = Call("SetShaderMaterial", tag, <<"nullptr->setVec3Value">>, 0)
            /\ UNCHANGED uniforms
       ELSE /\ uniforms' = SetShaderMaterial(uniforms, tag, material)
            /\ last' = Call("SetShaderMaterial", tag, <<>>, 0)
            /\ UNCHANGED crashed
    /\ UNCHANGED <<scene, registry, m_objectMaterials, gl, ncalls>>

CallSetShaderColor(color) ==
    /\ ~crashed
    /\ uniforms' = SetShaderColor(uniforms, color)
    /\ last' = Call("SetShaderColor", "", color, 0)
    /\ UNCHANGED <<scene, registry, m_objectMaterials, gl, ncalls, crashed>>

CallSetTransformations(t) ==
    /\ ~crashed
    /\ uniforms' = SetTransformations(uniforms, t.scaleXYZ, t.X, t.Y, t.Z,
                                      t.positionXYZ)
    /\ last' = Call("SetTransformations", "",
                    t.scaleXYZ \o <<t.X, t.Y, t.Z>> \o t.positionXYZ, 0)
    /\ UNCHANGED <<scene, registry, m_objectMaterials, gl, ncalls, crashed>>

CallSetTextureUVScale(uv) ==
    /\ ~crashed
    /\ uniforms' = SetTextureUVScale(uniforms, uv)
    /\ last' = Call("SetTextureUVScale", "", uv, 0)
    /\ UNCHANGED <<scene, registry, m_objectMaterials, gl, ncalls, crashed>>

ShaderNext ==
    \/ CallDefineObjectMaterials
    \/ \E t \in MaterialTags, m \in StackGarbage : CallFindMaterial(t, m)
    \/ \E t \in MaterialTags, m \in StackGarbage, s \in BOOLEAN :
          CallSetShaderMaterial(t, m, s)
    \/ \E c \in Colors : CallSetShaderColor(c)
    \/ \E t \in LookupTags : CallSetShaderTexture(t)
    \/ \E t \in Transforms : CallSetTransformations(t)
    \/ \E uv \in UVScales : CallSetTextureUVScale(uv)

ShaderSpec == InitAPI /\ [][ShaderNext]_vars

(***************************************************************************)
(* The shader-binding methods of a SceneManager constructed with a null    *)
(* shader manager.                                                         *)
(***************************************************************************)
NullInit ==
    /\ \E g \in GarbageFill : Constructed(NULL, g)
    /\ ViewConstructed(ShaderMgr)
    /\ files = AllGood
    /\ Started

\* SetupSceneLights has no check of m_pShaderManager either: its first
\* statement, setBoolValue, goes through the pointer.  When that goes
\* unnoticed the four lightPositions stores are made.
CallSetupSceneLights(survives) ==
    /\ ~crashed
    /\ IF m_pShaderManager = NULL
       THEN /\ crashed' = ~survives
            /\ lightPositions' = IF survives THEN ScenePositions ELSE lightPositions
            /\ last' = Call("SetupSceneLights", "nullptr->setBoolValue", <<>>, 0)
            /\ UNCHANGED uniforms
       ELSE /\ SetupSceneLights
            /\ UNCHANGED crashed
    /\ UNCHANGED <<m_pShaderManager, registry, m_objectMaterials, gl, files,
                   viewState, pc, drawn, locals, ncalls>>

NullNext ==
    \/ ShaderNext
    \/ \E s \in BOOLEAN : CallSetupSceneLights(s)

NullSpec == NullInit /\ [][NullNext]_vars

(***************************************************************************)
(* PrepareScene                                                            *)
(***************************************************************************)
\* the statements of PrepareScene with LoadSceneTextures inlined:
\* 1 SetupSceneLights, 2 DefineObjectMaterials, 3..16 the CreateGLTexture
\* calls, 17 BindGLTextures, 18 the nine m_basicMeshes->Load...Mesh calls
BeforeTextures == <<"SetupSceneLights", "DefineObjectMaterials">>
FirstTexture == Len(BeforeTextures) + 1
BindStep == FirstTexture + Len(SceneTextures)
MeshStep == BindStep + 1

BeginPrepareScene ==
    /\ ~crashed
    /\ pc = Idle
    /\ ncalls < MaxPrepares
    /\ ncalls' = ncalls + 1
    /\ pc' = At("PrepareScene", 1)
    /\ last' = Call("PrepareScene", "", <<>>, 0)
    /\ UNCHANGED <<m_pShaderManager, registry, m_objectMaterials, lightPositions,
                   uniforms, gl, files, viewState, drawn, locals, crashed>>

StepSetupSceneLights ==
    /\ ~crashed
    /\ pc = At("PrepareScene", 1)
    /\ SetupSceneLights
    /\ pc' = At("PrepareScene", 2)
    /\ UNCHANGED <<m_pShaderManager, registry, m_objectMaterials, gl, files, viewState,
                   drawn, locals, ncalls, crashed>>

StepDefineObjectMaterials ==
    /\ ~crashed
    /\ pc = At("PrepareScene", 2)
    /\ DefineObjectMaterials
    /\ pc' = At("PrepareScene", FirstTexture)
    /\ last' = Call("DefineObjectMaterials", "", <<>>, 0)
    /\ UNCHANGED <<m_pShaderManager, registry, lightPositions, uniforms, gl,
                   files, viewState, drawn, locals, ncalls, crashed>>

\* bReturn = CreateGLTexture("../../Utilities/textures/<file>", "<tag>");
\* the result is not looked at
StepCreateGLTexture(survives) ==
    /\ ~crashed
    /\ pc.fn = "PrepareScene"
    /\ pc.i \in FirstTexture..(BindStep - 1)
    /\ LET t == SceneTextures[pc.i - FirstTexture + 1]
       IN  /\ CreateGLTexture(files[t.file], t.tag, survives)
           /\ last' = Call("CreateGLTexture", t.tag, <<files[t.file]>>,
                           IF crashed' THEN -1
                           ELSE Bool(CreateGLTextureRet(files[t.file])))
    /\ pc' = IF crashed' THEN pc ELSE At("PrepareScene", pc.i + 1)
    /\ UNCHANGED <<m_pShaderManager, m_objectMaterials, lightPositions, uniforms,
                   files, viewState, drawn, locals, ncalls>>

\* a variant of LoadSceneTextures without its closing BindGLTextures()
StepBindGLTexturesOmitted ==
    /\ ~crashed
    /\ pc = At("PrepareScene", BindStep)
    /\ pc' = At("PrepareScene", MeshStep)
    /\ UNCHANGED <<m_pShaderManager, registry, m_objectMaterials, lightPositions,
                   uniforms, gl, files, viewState, drawn, locals, last, ncalls, crashed>>

StepBindGLTextures ==
    /\ ~crashed
    /\ pc = At("PrepareScene", BindStep)
    /\ BindGLTextures
    /\ pc' = At("PrepareScene", MeshStep)
    /\ last' = Call("BindGLTextures", "", <<>>, 0)
    /\ UNCHANGED <<m_pShaderManager, registry, m_objectMaterials, lightPositions,
                   uniforms, files, viewState, drawn, locals, ncalls, crashed>>

StepLoadMeshes ==
    /\ ~crashed
    /\ pc = At("PrepareScene", MeshStep)
    /\ gl' = [gl EXCEPT !.meshes = @ + 1]
    /\ pc' = Idle
    /\ last' = Call("LoadMeshes", "", <<>>, 0)
    /\ UNCHANGED <<m_pShaderManager, registry, m_objectMaterials, lightPositions,
                   uniforms, files, viewState, drawn, locals, ncalls, crashed>>

(***************************************************************************)
(* RenderScene                                                             *)
(***************************************************************************)
StVec(op, vec, line) == [op |-> op, tag |-> "", vec |-> vec, num |-> 0, line |-> line]
StNum(op, num, line) == [op |-> op, tag |-> "", vec |-> <<>>, num |-> num, line |-> line]
StCall(op, tag, line) == [op |-> op, tag |-> tag, vec |-> <<>>, num |-> 0, line |-> line]

\* the statements of RenderScene up to the light cubes, one sequence per
\* drawn object, each with the source line it stands on
SceneObjects ==
    <<
       << StVec("scaleXYZ", <<1200, 100, 800>>, 716),
          StVec("positionXYZ", <<250, 0, -1200>>, 717),
          StCall("SetTransformations", "", 718),
          StCall("SetShaderTexture", "metal_table", 719),
          StCall("SetShaderMaterial", "dull", 720),
          StCall("Draw", "Plane", 721) >>,
       << StVec("scaleXYZ", <<200, 200, 200>>, 731),
          StVec("positionXYZ", <<0, 200, -840>>, 732),
          StCall("SetTransformations", "", 733),
          StCall("SetShaderMaterial", "porcelaine", 734),
          StCall("SetShaderTexture", "blue_vase", 735),
          StCall("Draw", "Sphere", 736) >>,
       << StVec("scaleXYZ", <<70, 300, 70>>, 739),
          StVec("positionXYZ", <<0, 200, -840>>, 740),
          StCall("SetTransformations", "", 741),
          StCall("SetShaderMaterial", "porcelaine", 742),
          StCall("SetShaderTexture", "blue_vase3", 743),
          StCall("Draw", "Cylinder", 744) >>,
       << StVec("scaleXYZ", <<70, 20, 70>>, 747),
          StVec("positionXYZ", <<0, 490, -840>>, 748),
          StCall("SetTransformations", "", 749),
          StCall("SetShaderMaterial", "void", 750),
          StVec("SetShaderColor", <<0, 0, 0, 100>>, 751),
          StCall("Draw", "Cylinder", 752) >>,
       << StVec("scaleXYZ", <<80, 80, 80>>, 755),
          StNum("XrotationDegrees", 90, 756),
          StVec("positionXYZ", <<0, 500, -840>>, 757),
          StCall("SetTransformations", "", 758),
          StCall("SetShaderMaterial", "porcelaine", 759),
          StCall("SetShaderTexture", "blue_vase3", 760),
          StCall("Draw", "Torus", 761) >>,
       << StVec("scaleXYZ", <<60, 100, 60>>, 764),
          StNum("XrotationDegrees", 90, 765),
          StVec("positionXYZ", <<0, 14, -885>>, 766),
          StCall("SetTransformations", "", 767),
          StCall("SetShaderMaterial", "porcelaine", 768),
          StCall("SetShaderTexture", "blue_vase3", 769),
          StCall("Draw", "Torus", 770) >>,
       << StVec("scaleXYZ", <<250, 500, 250>>, 780),
          StNum("XrotationDegrees", 180, 781),
          StVec("positionXYZ", <<-500, 500, -1240>>, 782),
          StCall("SetTransformations", "", 783),
          StCall("SetShaderMaterial", "shiny", 784),
          StCall("SetShaderTexture", "tiger_wood", 785),
          StCall("Draw", "Cylinder", 786) >>,
       << StVec("scaleXYZ", <<250, 60, 250>>, 789),
          StNum("XrotationDegrees", 0, 790),
          StVec("positionXYZ", <<-500, 500, -1240>>, 791),
          StCall("SetTransformations", "", 792),
          StCall("SetShaderMaterial", "porcelaine", 793),
          StCall("SetShaderTexture", "tiger_wood", 794),
          StCall("Draw", "TaperedCylinder", 795) >>,
       << StVec("scaleXYZ", <<190, 150, 190>>, 798),
          StNum("XrotationDegrees", 0, 799),
          StVec("positionXYZ", <<-500, 430, -1240>>, 800),
          StCall("SetTransformations", "", 801),
          StCall("SetShaderMaterial", "dull", 802),
          StVec("SetShaderColor", <<50, 50, 50, 100>>, 803),
          StCall("Draw", "Cylinder", 805) >>,
       << StVec("scaleXYZ", <<180, 150, 180>>, 808),
          StNum("XrotationDegrees", 0, 809),
          StVec("positionXYZ", <<-500, 432, -1240>>, 810),
          StCall("SetTransformations", "", 811),
          StCall("SetShaderMaterial", "void", 812),
          StVec("SetShaderColor", <<0, 0, 0, 100>>, 813),
          StCall("Draw", "Cylinder", 815) >>,
       << StVec("scaleXYZ", <<215, 215, 50>>, 818),
          StNum("XrotationDegrees", 90, 819),
          StVec("positionXYZ", <<-500, 50, -1240>>, 820),
          StCall("SetTransformations", "", 821),
          StCall("SetShaderMaterial", "dull", 822),
          StVec("SetShaderColor", <<10, 10, 10, 100>>, 823),
          StCall("Draw", "Torus", 825) >>,
       << StVec("scaleXYZ", <<350, 540, 350>>, 835),
          StNum("XrotationDegrees", 180, 836),
          StNum("YrotationDegrees", -90, 837),
          StVec("positionXYZ", <<400, 520, -1240>>, 838),
          StCall("SetTransformations", "", 839),
          StCall("SetShaderMaterial", "shinyish", 840),
          StCall("SetShaderTexture", "can_skin", 841),
          StCall("Draw", "TaperedCylinder", 842) >>,
       << StVec("scaleXYZ", <<320, 20, 320>>, 845),
          StNum("XrotationDegrees", 180, 846),
          StNum("YrotationDegrees", -90, 847),
          StVec("positionXYZ", <<400, 523, -1240>>, 848),
          StCall("SetTransformations", "", 849),
          StCall("SetShaderMaterial", "void", 850),
          StVec("SetShaderColor", <<0, 0, 0, 100>>, 851),
          StCall("Draw", "Cylinder", 852) >>,
       << StVec("scaleXYZ", <<296, 296, 50>>, 855),
          StNum("XrotationDegrees", 90, 856),
          StNum("YrotationDegrees", 0, 857),
          StVec("positionXYZ", <<400, 510, -1240>>, 858),
          StCall("SetTransformations", "", 859),
          StCall("SetShaderMaterial", "shiny", 860),
          StVec("SetShaderColor", <<10, 10, 10, 100>>, 861),
          StCall("Draw", "Torus", 862) >>,
       << StVec("scaleXYZ", <<160, 160, 50>>, 865),
          StNum("XrotationDegrees", 90, 866),
          StNum("YrotationDegrees", 0, 867),
          StVec("positionXYZ", <<400, 8, -1240>>, 868),
          StCall("SetTransformations", "", 869),
          StCall("SetShaderMaterial", "shiny", 870),
          StVec("SetShaderColor", <<10, 10, 10, 100>>, 871),
          StCall("Draw", "Torus", 872) >>,
       << StVec("scaleXYZ", <<60, 500, 60>>, 882),
          StNum("ZrotationDegrees", -90, 883),
          StVec("positionXYZ", <<400, 80, -640>>, 884),
          StCall("SetTransformations", "", 885),
          StCall("SetShaderMaterial", "dull", 886),
          StCall("SetShaderTexture", "pink_matte", 887),
          StCall("Draw", "Cylinder", 888) >>,
       << StVec("scaleXYZ", <<110, 100, 160>>, 891),
          StNum("ZrotationDegrees", -90, 892),
          StVec("positionXYZ", <<350, 80, -640>>, 893),
          StCall("SetTransformations", "", 894),
          StCall("SetShaderMaterial", "dull", 895),
          StCall("SetShaderTexture", "pink_matte2", 896),
          StCall("Draw", "Box", 897) >>,
       << StVec("scaleXYZ", <<110, 100, 160>>, 900),
          StNum("ZrotationDegrees", -90, 901),
          StVec("positionXYZ", <<850, 80, -640>>, 902),
          StCall("SetTransformations", "", 903),
          StCall("SetShaderMaterial", "dull", 904),
          StCall("SetShaderTexture", "pink_matte2", 905),
          StCall("Draw", "Box", 906) >>,
       << StVec("scaleXYZ", <<160, 100, 40>>, 909),
          StNum("ZrotationDegrees", 90, 910),
          StNum("XrotationDegrees", 0, 911),
          StVec("positionXYZ", <<850, 80, -565>>, 912),
          StCall("SetTransformations", "", 913),
          StCall("SetShaderMaterial", "dull", 914),
          StCall("SetShaderTexture", "pink_matte2", 915),
          StCall("Draw", "Prism", 916) >>,
       << StVec("scaleXYZ", <<160, 100, 40>>, 919),
          StNum("ZrotationDegrees", 90, 920),
          StNum("XrotationDegrees", 180, 921),
          StVec("positionXYZ", <<850, 80, -715>>, 922),
          StCall("SetTransformations", "", 923),
          StCall("SetShaderMaterial", "dull", 924),
          StCall("SetShaderTexture", "pink_matte2", 925),
          StCall("Draw", "Prism", 926) >>,
       << StVec("scaleXYZ", <<160, 100, 40>>, 929),
          StNum("ZrotationDegrees", 90, 930),
          StNum("XrotationDegrees", 0, 931),
          StVec("positionXYZ", <<350, 80, -565>>, 932),
          StCall("SetTransformations", "", 933),
          StCall("SetShaderMaterial", "dull", 934),
          StCall("SetShaderTexture", "pink_matte2", 935),
          StCall("Draw", "Prism", 936) >>,
       << StVec("scaleXYZ", <<160, 100, 40>>, 939),
          StNum("ZrotationDegrees", 90, 940),
          StNum("XrotationDegrees", 180, 941),
          StVec("positionXYZ", <<350, 80, -715>>, 942),
          StCall("SetTransformations", "", 943),
          StCall("SetShaderMaterial", "dull", 944),
          StCall("SetShaderTexture", "pink_matte2", 945),
          StCall("Draw", "Prism", 946) >>,
       << StVec("scaleXYZ", <<20, 500, 200>>, 960),
          StVec("positionXYZ", <<1000, 10, -1240>>, 961),
          StCall("SetTransformations", "", 962),
          StCall("SetShaderMaterial", "shiny", 963),
          StCall("SetShaderTexture", "ruby8", 964),
          StCall("Draw", "Box", 965) >>,
       << StVec("scaleXYZ", <<20, 490, 190>>, 968),
          StVec("positionXYZ", <<1000, 15, -1240>>, 969),
          StCall("SetTransformations", "", 970),
          StCall("SetShaderMaterial", "shiny", 971),
          StCall("SetShaderTexture", "ruby6", 972),
          StCall("Draw", "Box", 973) >>,
       << StVec("scaleXYZ", <<15, 500, 200>>, 976),
          StVec("positionXYZ", <<1000, 30, -1240>>, 977),
          StCall("SetTransformations", "", 978),
          StCall("SetShaderMaterial", "shiny", 979),
          StCall("SetShaderTexture", "ruby6", 980),
          StCall("Draw", "Box", 981) >>,
       << StVec("scaleXYZ", <<20, 250, 140>>, 984),
          StVec("positionXYZ", <<1000, 30, -1220>>, 985),
          StCall("SetTransformations", "", 986),
          StCall("SetShaderMaterial", "shiny", 987),
          StCall("SetShaderTexture", "ruby9", 988),
          StCall("Draw", "Box", 989) >>,
       << StVec("scaleXYZ", <<20, 250, 20>>, 992),
          StVec("positionXYZ", <<1000, 32, -1155>>, 993),
          StCall("SetTransformations", "", 994),
          StCall("SetShaderMaterial", "shiny", 995),
          StVec("SetShaderColor", <<50, 50, 50, 100>>, 996),
          StCall("Draw", "Box", 998) >>,
       << StVec("scaleXYZ", <<20, 500, 200>>, 1004),
          StNum("XrotationDegrees", 90, 1005),
          StVec("positionXYZ", <<1000, 140, -1333>>, 1006),
          StCall("SetTransformations", "", 1007),
          StCall("SetShaderMaterial", "shiny", 1008),
          StCall("SetShaderTexture", "ruby8", 1009),
          StCall("Draw", "Box", 1010) >>,
       << StVec("scaleXYZ", <<20, 320, 160>>, 1013),
          StNum("XrotationDegrees", 90, 1014),
          StVec("positionXYZ", <<1000, 120, -1332>>, 1015),
          StCall("SetTransformations", "", 1016),
          StCall("SetShaderMaterial", "shiny", 1017),
          StCall("SetShaderTexture", "ruby9", 1018),
          StCall("Draw", "Box", 1019) >>,
       << StVec("scaleXYZ", <<20, 400, 25>>, 1022),
          StNum("XrotationDegrees", 45, 1023),
          StVec("positionXYZ", <<1000, 40, -1328>>, 1024),
          StCall("SetTransformations", "", 1025),
          StCall("SetShaderMaterial", "shiny", 1026),
          StVec("SetShaderColor", <<50, 50, 50, 100>>, 1027),
          StCall("Draw", "Box", 1029) >>,
       << StVec("scaleXYZ", <<35, 10, 35>>, 1035),
          StNum("XrotationDegrees", 90, 1036),
          StNum("YrotationDegrees", 90, 1037),
          StVec("positionXYZ", <<815, 40, -1260>>, 1038),
          StCall("SetTransformations", "", 1039),
          StCall("SetShaderMaterial", "porcelaine", 1040),
          StVec("SetShaderColor", <<50, 50, 50, 100>>, 1041),
          StCall("Draw", "Cylinder", 1043) >>,
       << StVec("scaleXYZ", <<25, 10, 25>>, 1046),
          StNum("YrotationDegrees", 90, 1047),
          StVec("positionXYZ", <<815, 45, -1260>>, 1048),
          StCall("SetTransformations", "", 1049),
          StCall("SetShaderMaterial", "porcelaine", 1050),
          StCall("SetShaderTexture", "ruby9", 1052),
          StCall("Draw", "Cylinder", 1053) >>,
       << StVec("scaleXYZ", <<50, 20, 15>>, 1056),
          StVec("positionXYZ", <<815, 32, -1180>>, 1057),
          StCall("SetTransformations", "", 1058),
          StCall("SetShaderMaterial", "porcelaine", 1059),
          StVec("SetShaderColor", <<50, 50, 50, 100>>, 1060),
          StCall("Draw", "Box", 1062) >>,
       << StVec("scaleXYZ", <<15, 20, 50>>, 1065),
          StVec("positionXYZ", <<815, 32, -1180>>, 1066),
          StCall("SetTransformations", "", 1067),
          StCall("SetShaderMaterial", "porcelaine", 1068),
          StVec("SetShaderColor", <<50, 50, 50, 100>>, 1069),
          StCall("Draw", "Box", 1071) >>,
       << StVec("scaleXYZ", <<15, 20, 15>>, 1077),
          StVec("positionXYZ", <<1150, 32, -1160>>, 1078),
          StCall("SetTransformations", "", 1079),
          StCall("SetShaderMaterial", "shinyMaterial", 1080),
          StVec("SetShaderColor", <<50, 50, 50, 100>>, 1081),
          StCall("Draw", "Box", 1083) >>,
       << StVec("scaleXYZ", <<14, 10, 14>>, 1086),
          StNum("YrotationDegrees", 90, 1087),
          StVec("positionXYZ", <<1190, 40, -1265>>, 1088),
          StCall("SetTransformations", "", 1089),
          StCall("SetShaderMaterial", "shinyMaterial", 1090),
          StVec("SetShaderColor", <<50, 50, 50, 100>>, 1091),
          StCall("Draw", "Cylinder", 1093) >>,
       << StVec("scaleXYZ", <<14, 10, 14>>, 1096),
          StNum("YrotationDegrees", 90, 1097),
          StVec("positionXYZ", <<1190, 40, -1210>>, 1098),
          StCall("SetTransformations", "", 1099),
          StCall("SetShaderMaterial", "shinyMaterial", 1100),
          StVec("SetShaderColor", <<50, 50, 50, 100>>, 1101),
          StCall("Draw", "Cylinder", 1103) >>,
       << StVec("scaleXYZ", <<14, 10, 14>>, 1106),
          StNum("YrotationDegrees", 90, 1107),
          StVec("positionXYZ", <<1215, 40, -1237>>, 1108),
          StCall("SetTransformations", "", 1109),
          StCall("SetShaderMaterial", "shinyMaterial", 1110),
          StVec("SetShaderColor", <<50, 50, 50, 100>>, 1111),
          StCall("Draw", "Cylinder", 1113) >>,
       << StVec("scaleXYZ", <<14, 10, 14>>, 1116),
          StNum("YrotationDegrees", 90, 1117),
          StVec("positionXYZ", <<1165, 40, -1237>>, 1118),
          StCall("SetTransformations", "", 1119),
          StCall("SetShaderMaterial", "shinyMaterial", 1120),
          StVec("SetShaderColor", <<50, 50, 50, 100>>, 1121),
          StCall("Draw", "Cylinder", 1123) >>
    >>

\* glm::vec3 cubeColors[4]
cubeColors == << <<100, 0, 0>>, <<0, 100, 0>>, <<0, 0, 100>>, <<100, 100, 0>> >>

\* a variant that walks lightPositions from its last element down
LightCubeReversed(i) ==
    << StVec("scaleXYZ", <<1500, 1500, 1500>>, 1147),
       StVec("positionXYZ", lightPositions[4 - i], 1148),
       StCall("SetTransformations", "", 1149),
       StCall("SetShaderMaterial", "porcelaine", 1150),
       StVec("SetShaderColor", cubeColors[i + 1] \o <<100>>, 1151),
       StCall("Draw", "Box", 1152) >>

\* the body of "for (int i = 0; i < 4; i++)", for the C++ index i
LightCube(i) ==
    << StVec("scaleXYZ", <<1500, 1500, 1500>>, 1147),
       StVec("positionXYZ", lightPositions[i + 1], 1148),
       StCall("SetTransformations", "", 1149),
       StCall("SetShaderMaterial", "porcelaine", 1150),
       StVec("SetShaderColor", cubeColors[i + 1] \o <<100>>, 1151),
       StCall("Draw", "Box", 1152) >>

NumObjects == Len(SceneObjects) + 4

\* the statements that lead to the k-th draw call of a frame
ObjectBlock(k) ==
    IF k <= Len(SceneObjects) THEN SceneObjects[k]
    ELSE LightCube(k - Len(SceneObjects) - 1)

\* a variant in which every draw sets the rotation angles back to 0
ExecStatementResetsAngles(st, s, material) ==
    LET args == IF s.op = "SetTransformations"
                THEN st.locals.scaleXYZ
                     \o <<st.locals.XrotationDegrees, st.locals.YrotationDegrees,
                          st.locals.ZrotationDegrees>>
                     \o st.locals.positionXYZ
                ELSE s.vec
        called == [st EXCEPT !.calls = Append(@, [op |-> s.op, tag |-> s.tag,
                                                  args |-> args])]
    IN  CASE s.op = "scaleXYZ" -> [st EXCEPT !.locals.scaleXYZ = s.vec]
          [] s.op = "positionXYZ" -> [st EXCEPT !.locals.positionXYZ = s.vec]
          [] s.op = "XrotationDegrees" -> [st EXCEPT !.locals.XrotationDegrees = s.num]
          [] s.op = "YrotationDegrees" -> [st EXCEPT !.locals.YrotationDegrees = s.num]
          [] s.op = "ZrotationDegrees" -> [st EXCEPT !.locals.ZrotationDegrees = s.num]
          [] s.op = "SetTransformations" ->
                [called EXCEPT !.u = SetTransformations(st.u, st.locals.scaleXYZ,
                    st.locals.XrotationDegrees, st.locals.YrotationDegrees,
                    st.locals.ZrotationDegrees, st.locals.positionXYZ)]
          [] s.op = "SetShaderMaterial" ->
                [called EXCEPT !.u = SetShaderMaterial(st.u, s.tag, material)]
          [] s.op = "SetShaderTexture" ->
                [called EXCEPT !.u = SetShaderTexture(st.u, s.tag)]
          [] s.op = "SetShaderColor" ->
                [called EXCEPT !.u = SetShaderColor(st.u, s.vec)]
          [] s.op = "Draw" ->
                [st EXCEPT !.calls = <<>>,
                           !.locals.XrotationDegrees = 0,
                           !.locals.YrotationDegrees = 0,
                           !.locals.ZrotationDegrees = 0,
                           !.drawn = [kind |-> s.tag, line |-> s.line,
                                      calls |-> st.calls]]

\* One statement of RenderScene.  st holds the uniforms u, the local
\* variables, the calls made since the previous draw (each with its tag and
\* its float arguments), and the latest draw;
\* material is the content of SetShaderMaterial's uninitialised local.
ExecStatement(st, s, material) ==
    LET args == IF s.op = "SetTransformations"
                THEN st.locals.scaleXYZ
                     \o <<st.locals.XrotationDegrees, st.locals.YrotationDegrees,
                          st.locals.ZrotationDegrees>>
                     \o st.locals.positionXYZ
                ELSE s.vec
        called == [st EXCEPT !.calls = Append(@, [op |-> s.op, tag |-> s.tag,
                                                  args |-> args])]
    IN  CASE s.op = "scaleXYZ" -> [st EXCEPT !.locals.scaleXYZ = s.vec]
          [] s.op = "positionXYZ" -> [st EXCEPT !.locals.positionXYZ = s.vec]
          [] s.op = "XrotationDegrees" -> [st EXCEPT !.locals.XrotationDegrees = s.num]
          [] s.op = "YrotationDegrees" -> [st EXCEPT !.locals.YrotationDegrees = s.num]
          [] s.op = "ZrotationDegrees" -> [st EXCEPT !.locals.ZrotationDegrees = s.num]
          [] s.op = "SetTransformations" ->
                [called EXCEPT !.u = SetTransformations(st.u, st.locals.scaleXYZ,
                    st.locals.XrotationDegrees, st.locals.YrotationDegrees,
                    st.locals.ZrotationDegrees, st.locals.positionXYZ)]
          [] s.op = "SetShaderMaterial" ->
                [called EXCEPT !.u = SetShaderMaterial(st.u, s.tag, material)]
          [] s.op = "SetShaderTexture" ->
                [called EXCEPT !.u = SetShaderTexture(st.u, s.tag)]
          [] s.op = "SetShaderColor" ->
                [called EXCEPT !.u = SetShaderColor(st.u, s.vec)]
          [] s.op = "Draw" ->
                [st EXCEPT !.calls = <<>>,
                           !.drawn = [kind |-> s.tag, line |-> s.line,
                                      calls |-> st.calls]]

RECURSIVE ExecFrom(_, _, _, _)
ExecFrom(st, block, n, material) ==
    IF n > Len(block) THEN st
    ELSE ExecFrom(ExecStatement(st, block[n], material), block, n + 1, material)

\* a variant whose transformation variables outlive the call
BeginRenderSceneKeepsLocals ==
    /\ ~crashed
    /\ pc = Idle
    /\ pc' = At("RenderScene", 1)
    /\ last' = Call("RenderScene", "", <<>>, 0)
    /\ UNCHANGED <<m_pShaderManager, registry, m_objectMaterials, lightPositions,
                   uniforms, gl, files, viewState, drawn, locals, ncalls, crashed>>

BeginRenderScene ==
    /\ ~crashed
    /\ pc = Idle
    /\ pc' = At("RenderScene", 1)
    /\ locals' = EntryLocals
    /\ last' = Call("RenderScene", "", <<>>, 0)
    /\ UNCHANGED <<m_pShaderManager, registry, m_objectMaterials, lightPositions,
                   uniforms, gl, files, viewState, drawn, ncalls, crashed>>

\* What SetShaderMaterial's uninitialised local can hold in the block, as
\* far as the block can tell: the local is read only when FindMaterial
\* returned true without copying a material into it.
GarbageReadBy(block) ==
    IF \E n \in 1..Len(block) :
          /\ block[n].op = "SetShaderMaterial"
          /\ Len(m_objectMaterials) > 0
          /\ \A i \in 1..Len(m_objectMaterials) :
                m_objectMaterials[i].tag # block[n].tag
    THEN StackGarbage
    ELSE {uniforms.material}

\* the statements of RenderScene from one draw call up to the next
RenderObject ==
    /\ ~crashed
    /\ pc.fn = "RenderScene"
    /\ \E material \in GarbageReadBy(ObjectBlock(pc.i)) :
       \E st \in {ExecFrom([u |-> uniforms, locals |-> locals, calls |-> <<>>,
                             drawn |-> drawn],
                            ObjectBlock(pc.i), 1, material)} :
           /\ uniforms' = st.u
           /\ locals' = st.locals
           /\ drawn' = st.drawn
           /\ last' = Call("Draw", st.drawn.kind, <<>>, 0)
    /\ pc' = IF pc.i < NumObjects THEN At("RenderScene", pc.i + 1) ELSE Idle
    /\ UNCHANGED <<m_pShaderManager, registry, m_objectMaterials, lightPositions,
                   gl, files, viewState, ncalls, crashed>>

SceneNext ==
    \/ BeginPrepareScene
    \/ StepSetupSceneLights
    \/ StepDefineObjectMaterials
    \/ \E s \in BOOLEAN : StepCreateGLTexture(s)
    \/ StepBindGLTextures
    \/ StepLoadMeshes
    \/ BeginRenderScene
    \/ RenderObject

Spec == Init /\ [][SceneNext]_vars

(***************************************************************************)
(* A build whose heap happens to be zero-filled: one of the behaviours of  *)
(* Spec, in which m_loadedTextures starts at 0.                            *)
(***************************************************************************)
ZeroInit ==
    /\ Init
    /\ Constructed(ShaderMgr, 0)

ZeroSpec == ZeroInit /\ [][SceneNext]_vars

(***************************************************************************)
(* View specification: the ViewManager's public methods, the GLFW mouse    *)
(* callbacks and the deletion and construction of the ViewManager, in any  *)
(* order.                                                                  *)
(***************************************************************************)
\* the keys glfwGetKey is explored with, the cursor positions of the mouse
\* events (pixels, in hundredths), the scroll offsets, and the time that can
\* pass between two glfwGetTime calls
PressedKeys == SUBSET {"ESCAPE", "W", "P", "O"}
CursorX == {40000, 90000}
CursorY == {30000, 60000}
ScrollOffsets == {-100, 100}
FrameTimes == {0, 2}

\* a call through g_pCamera; the outcome of a call through a null pointer
\* is either the end of the process or a call that went unnoticed
Receiver(method) ==
    IF g_pCamera = nullptr THEN "nullptr->" \o method ELSE "g_pCamera->" \o method

ViewInit ==
    /\ Constructed(ShaderMgr, 0)
    /\ \E p \in {ShaderMgr, NULL} : ViewConstructed(p)
    /\ files = AllGood
    /\ Started

\* glfwCreateWindow succeeded or not; on success the two mouse callbacks
\* are registered with the window
CreateDisplayWindow(created) ==
    /\ ~crashed
    /\ viewManager # nullptr
    /\ window = nullptr
    /\ IF created
       THEN /\ window' = [shouldClose |-> FALSE]
            /\ viewManager' = [viewManager EXCEPT !.m_pWindow = "window"]
       ELSE UNCHANGED <<window, viewManager>>
    /\ last' = Call("CreateDisplayWindow", "", <<>>, Bool(created))
    /\ UNCHANGED <<sceneManager, uniforms, gl, files, pc, drawn, locals, ncalls,
                   crashed, g_pCamera, gLastX, gLastY, gFirstMouse, gDeltaTime,
                   gLastFrame, bOrthographicProjection>>

\* GLFW delivers a cursor position of the window.  The call is recorded
\* with its receiver and <<xMousePos, yMousePos, xOffset, yOffset>>, or
\* with no receiver and the position alone when it returned early.
Mouse_Position_Callback(xMousePos, yMousePos, survives) ==
    /\ ~crashed
    /\ window # nullptr
    /\ IF gFirstMouse
       THEN /\ gLastX' = xMousePos
            /\ gLastY' = yMousePos - 150000
            /\ gFirstMouse' = FALSE
            /\ last' = Call("Mouse_Position_Callback", "", <<xMousePos, yMousePos>>, 0)
            /\ UNCHANGED crashed
       ELSE LET xOffset == xMousePos - gLastX
                yOffset == gLastY - yMousePos
            IN  /\ gLastX' = xMousePos
                /\ gLastY' = yMousePos
                /\ UNCHANGED gFirstMouse
                /\ last' = Call("Mouse_Position_Callback",
                                Receiver("ProcessMouseMovement"),
                                <<xMousePos, yMousePos, xOffset, yOffset>>, 0)
                /\ crashed' = (g_pCamera = nullptr /\ ~survives)
    /\ UNCHANGED <<sceneManager, uniforms, gl, files, pc, drawn, locals, ncalls,
                   viewManager, g_pCamera, gDeltaTime, gLastFrame,
                   bOrthographicProjection, window>>

Mouse_Scroll_Callback(yOffset, survives) ==
    /\ ~crashed
    /\ window # nullptr
    /\ last' = Call("Mouse_Scroll_Callback", Receiver("ProcessMouseScroll"),
                    <<yOffset>>, 0)
    /\ crashed' = (g_pCamera = nullptr /\ ~survives)
    /\ UNCHANGED <<sceneManager, uniforms, gl, files, pc, drawn, locals, ncalls,
                   viewManager, g_pCamera, gLastX, gLastY, gFirstMouse,
                   gDeltaTime, gLastFrame, bOrthographicProjection, window>>

\* PrepareSceneView() of a frame in which glfwGetKey reports the keys of
\* pressed and glfwGetTime the time currentFrame.  The call is recorded
\* with <<pressed, the ProcessKeyboard calls made>>.
PrepareSceneView(pressed, currentFrame, survives) ==
    /\ ~crashed
    /\ viewManager # nullptr
    /\ viewManager.m_pWindow # NULL
    /\ ncalls < MaxFrames
    /\ ncalls' = ncalls + 1
    /\ gDeltaTime' = currentFrame - gLastFrame
    /\ gLastFrame' = currentFrame
    /\ window' = IF "ESCAPE" \in pressed THEN [window EXCEPT !.shouldClose = TRUE]
                 ELSE window
    /\ IF g_pCamera = nullptr
       THEN \* ProcessKeyboardEvents returns early, then
            \* g_pCamera->GetViewMatrix() goes through the null pointer
            /\ UNCHANGED <<viewManager, bOrthographicProjection, uniforms>>
            /\ last' = Call("PrepareSceneView", Receiver("GetViewMatrix"),
                            <<pressed, <<>> >>, 0)
            /\ crashed' = ~survives
       ELSE /\ viewManager' = SwitchProjection(viewManager, pressed)
            /\ bOrthographicProjection' = SwitchFlag(bOrthographicProjection, pressed)
            /\ uniforms' = SetSceneView(uniforms, viewManager', g_pCamera)
            /\ last' = Call("PrepareSceneView", Receiver("GetViewMatrix"),
                            <<pressed, ProcessKeyboardCalls(pressed)>>, 0)
            /\ UNCHANGED crashed
    /\ UNCHANGED <<sceneManager, gl, files, pc, drawn, locals, g_pCamera, gLastX,
                   gLastY, gFirstMouse>>

\* the public projection setters, called from outside the class
CallSetPerspective ==
    /\ ~crashed
    /\ viewManager # nullptr
    /\ viewManager' = SetPerspective(viewManager)
    /\ last' = Call("SetPerspective", "", <<>>, 0)
    /\ UNCHANGED <<sceneManager, uniforms, gl, files, pc, drawn, locals, ncalls,
                   crashed, g_pCamera, gLastX, gLastY, gFirstMouse, gDeltaTime,
                   gLastFrame, bOrthographicProjection, window>>

CallSetOrthographic ==
    /\ ~crashed
    /\ viewManager # nullptr
    /\ viewManager' = SetOrthographic(viewManager)
    /\ last' = Call("SetOrthographic", "", <<>>, 0)
    /\ UNCHANGED <<sceneManager, uniforms, gl, files, pc, drawn, locals, ncalls,
                   crashed, g_pCamera, gLastX, gLastY, gFirstMouse, gDeltaTime,
                   gLastFrame, bOrthographicProjection, window>>

\* ViewManager::~ViewManager(): the camera is deleted and g_pCamera reset;
\* the window and its callbacks are not touched
DeleteViewManager ==
    /\ ~crashed
    /\ viewManager # nullptr
    /\ viewManager' = nullptr
    /\ g_pCamera' = nullptr
    /\ last' = Call("~ViewManager", "", <<>>, 0)
    /\ UNCHANGED <<sceneManager, uniforms, gl, files, pc, drawn, locals, ncalls,
                   crashed, gLastX, gLastY, gFirstMouse, gDeltaTime, gLastFrame,
                   bOrthographicProjection, window>>

\* a ViewManager constructed after the previous one was deleted: the
\* globals of ViewManager.cpp other than g_pCamera keep their values
ConstructViewManager(pShaderManager) ==
    /\ ~crashed
    /\ viewManager = nullptr
    /\ ncalls < MaxFrames
    /\ ncalls' = ncalls + 1
    /\ viewManager' = NewViewManager(pShaderManager)
    /\ g_pCamera' = NewCamera
    /\ last' = Call("ViewManager", "", <<>>, 0)
    /\ UNCHANGED <<sceneManager, uniforms, gl, files, pc, drawn, locals,
                   crashed, gLastX, gLastY, gFirstMouse, gDeltaTime, gLastFrame,
                   bOrthographicProjection, window>>

ViewNext ==
    \/ \E c \in BOOLEAN : CreateDisplayWindow(c)
    \/ \E x \in CursorX, y \in CursorY, s \in BOOLEAN : Mouse_Position_Callback(x, y, s)
    \/ \E y \in ScrollOffsets, s \in BOOLEAN : Mouse_Scroll_Callback(y, s)
    \/ \E k \in PressedKeys, t \in FrameTimes, s \in BOOLEAN :
          PrepareSceneView(k, gLastFrame + t, s)
    \/ CallSetPerspective
    \/ CallSetOrthographic
    \/ DeleteViewManager
    \/ \E p \in {ShaderMgr, NULL} : ConstructViewManager(p)

ViewSpec == ViewInit /\ [][ViewNext]_vars

(***************************************************************************)
(* Properties                                                              *)
(***************************************************************************)
\* the indices of the registry entries (those below the texture count)
\* that carry the tag
EntriesWith(tag) ==
    {i \in 0..(m_loadedTextures - 1) : m_textureIDs[i].tag = tag}

FirstEntryWith(tag) ==
    CHOOSE i \in EntriesWith(tag) : \A j \in EntriesWith(tag) : i <= j

\* the catalog positions of the materials that carry the tag
MaterialsWith(tag) ==
    {i \in 1..Len(m_objectMaterials) : m_objectMaterials[i].tag = tag}

\* C1: a SetShaderMaterial call whose tag matches no entry of a non-empty
\* catalog leaves the five material.* uniforms as they were.
C1_MissKeepsMaterialUniforms ==
    [][(/\ last'.op = "SetShaderMaterial"
        /\ Len(m_objectMaterials) > 0
        /\ MaterialsWith(last'.tag) = {})
       => uniforms'.material = uniforms.material]_vars

\* C2: FindMaterial reports found with the fields of the first-defined
\* material of that tag, and reports not-found exactly when no defined
\* material has the tag.
C2_FindMaterialFirstMatchOrFalse ==
    last.op = "FindMaterial" =>
        IF MaterialsWith(last.tag) = {}
        THEN last.ret = 0
        ELSE /\ last.ret = 1
             /\ \E i \in MaterialsWith(last.tag) :
                   /\ \A j \in MaterialsWith(last.tag) : i <= j
                   /\ last.mat = MaterialFields(m_objectMaterials[i])

\* C3: after CreateGLTexture calls with pairwise distinct tags, the tag just
\* registered successfully resolves to a slot in [0,16) that is greater than
\* the slot of every tag registered before it.
C3_SlotsDistinctInRangeIncreasing ==
    (/\ last.op = "CreateGLTexture"
     /\ last.ret = 1
     /\ \A t \in Tags :
           Cardinality({i \in DOMAIN m_textureIDs : m_textureIDs[i].tag = t}) <= 1)
    => /\ FindTextureSlot(last.tag) \in 0..(ArraySize - 1)
       /\ \A t \in Tags \ {last.tag} : FindTextureSlot(t) < FindTextureSlot(last.tag)

\* C4: on a freshly constructed SceneManager the texture count is 0 and no
\* entry is scanned; the first successful registration gets slot 0 and the
\* second slot 1.
C4_FreshCountIsZero ==
    /\ last = NoCall => (m_loadedTextures = 0 /\ EntriesWith("") = {})
    /\ (last.op = "CreateGLTexture" /\ last.ret = 1 /\ gl.nextID = 2)
          => FindTextureSlot(last.tag) = 0

\* C5: the number of registered textures never exceeds 16 and no entry is
\* written at an index >= 16 of m_textureIDs.
C5_AtMostSixteenTextures ==
    /\ m_loadedTextures <= ArraySize
    /\ \A i \in DOMAIN m_textureIDs : i < ArraySize

\* C6: a CreateGLTexture call whose image is unreadable or has a channel
\* count other than 3 and 4 returns false and leaves the texture count and
\* the entries unchanged, LoadSceneTextures goes on to its next statement,
\* and a successful call stores its entry at the index the count stood at,
\* which is the index the failed call before it left free.
C6_FailedLoadSkipped ==
    [][last'.op = "CreateGLTexture" =>
        IF last'.vec[1] \notin {3, 4}
        THEN /\ last'.ret = 0
             /\ m_loadedTextures' = m_loadedTextures
             /\ m_textureIDs' = m_textureIDs
             /\ pc' = At("PrepareScene", pc.i + 1)
        ELSE last'.ret = 1 =>
             /\ m_loadedTextures' = m_loadedTextures + 1
             /\ m_textureIDs'[m_loadedTextures].tag = last'.tag
             /\ \A i \in DOMAIN m_textureIDs \ {m_loadedTextures} :
                   m_textureIDs'[i] = m_textureIDs[i]]_vars

\* the first image failed to load and the second took slot 0 in its place
C6_Witness ==
    /\ files["metal_table.jpg"] # 3
    /\ last.op = "CreateGLTexture"
    /\ last.tag = "blue_vase"
    /\ last.ret = 1
    /\ FindTextureSlot("blue_vase") = 0
    /\ FindTextureSlot("metal_table") = -1

\* C7: FindTextureSlot returns the index of the first entry, in insertion
\* order, that carries the tag and FindTextureID the GPU handle of that same
\* entry; both return -1 exactly when no entry carries the tag, and neither
\* modifies the registry.
C7_LookupsResolveFirstEntry ==
    [][(last'.op \in {"FindTextureSlot", "FindTextureID"}) =>
        /\ (last'.ret = -1) <=> (EntriesWith(last'.tag) = {})
        /\ EntriesWith(last'.tag) # {} =>
              /\ last'.op = "FindTextureSlot" =>
                    last'.ret = FirstEntryWith(last'.tag)
              /\ last'.op = "FindTextureID" =>
                    last'.ret = m_textureIDs[FirstEntryWith(last'.tag)].ID
              /\ m_textureIDs[FindTextureSlot(last'.tag)].ID = FindTextureID(last'.tag)
        /\ m_loadedTextures' = m_loadedTextures
        /\ m_textureIDs' = m_textureIDs]_vars

\* a tag registered twice is looked up and resolves to its first entry
C7_Witness ==
    /\ last.op = "FindTextureID"
    /\ Cardinality(EntriesWith(last.tag)) = 2
    /\ last.tag \in Tags
    /\ last.ret = m_textureIDs[FirstEntryWith(last.tag)].ID
    /\ \E i \in EntriesWith(last.tag) : m_textureIDs[i].ID # last.ret

\* C8: SetShaderTexture sets bUseTexture to true and writes to objectTexture
\* the slot of the tag, or -1 when the tag is not registered, without
\* failing.
C8_SetShaderTextureWritesSlotOrSentinel ==
    [][last'.op = "SetShaderTexture" =>
        /\ uniforms'.bUseTexture = TRUE
        /\ uniforms'.objectTexture =
              IF EntriesWith(last'.tag) = {} THEN -1
              ELSE FirstEntryWith(last'.tag)
        /\ crashed' = FALSE]_vars

\* an unregistered tag is set while another tag is registered, after the
\* sampler held a real slot
C8_Witness ==
    /\ last.op = "SetShaderTexture"
    /\ EntriesWith(last.tag) = {}
    /\ \E t \in Tags : EntriesWith(t) # {}
    /\ uniforms.bUseTexture = TRUE
    /\ uniforms.objectTexture = -1

\* C9: SetShaderColor sets bUseTexture to false and objectColor to its
\* arguments and leaves every other uniform as it was.
C9_SetShaderColorTouchesOnlyColor ==
    [][last'.op = "SetShaderColor" =>
        /\ uniforms'.bUseTexture = FALSE
        /\ uniforms'.objectColor = last'.vec
        /\ \A f \in (DOMAIN uniforms) \ {"bUseTexture", "objectColor"} :
              uniforms'[f] = uniforms[f]]_vars

\* SetShaderColor has run after material, sampler, model and UVscale were
\* all written with values other than the initial ones
C9_Witness ==
    /\ last.op = "SetShaderColor"
    /\ uniforms.bUseTexture = FALSE
    /\ uniforms.objectColor = last.vec
    /\ uniforms.material = MaterialFields(SeedMaterials[1])
    /\ uniforms.objectTexture = -1
    /\ uniforms.model # FreshUniforms.model
    /\ uniforms.UVscale # FreshUniforms.UVscale

\* C10: every draw of RenderScene is preceded, since the previous draw, by
\* exactly SetTransformations, then SetShaderMaterial, then one of
\* SetShaderTexture and SetShaderColor.
C10_TransformMaterialThenTextureOrColor ==
    drawn # NoDraw =>
        /\ Len(drawn.calls) = 3
        /\ drawn.calls[1].op = "SetTransformations"
        /\ drawn.calls[2].op = "SetShaderMaterial"
        /\ drawn.calls[3].op \in {"SetShaderTexture", "SetShaderColor"}

\* the names of the SceneManager methods called since the previous draw
CallsBefore(d) == {d.calls[i].op : i \in 1..Len(d.calls)}

\* C11: every draw of RenderScene comes after a write of the model matrix
\* and a write of bUseTexture together with the sampler index or the flat
\* colour, all made since the previous draw, so that at the draw bUseTexture
\* is true exactly when the object's block called SetShaderTexture.
C11_DrawOverwritesTextureOrColor ==
    [][last'.op = "Draw" =>
        LET block == ObjectBlock(pc.i)
            texture == {n \in 1..Len(block) : block[n].op = "SetShaderTexture"}
            color == {n \in 1..Len(block) : block[n].op = "SetShaderColor"}
        IN  /\ "SetTransformations" \in CallsBefore(drawn')
            /\ uniforms'.model =
                  ModelMatrix(locals'.scaleXYZ, locals'.XrotationDegrees,
                              locals'.YrotationDegrees, locals'.ZrotationDegrees,
                              locals'.positionXYZ)
            /\ Cardinality(texture \cup color) = 1
            /\ uniforms'.bUseTexture = (texture # {})
            /\ uniforms'.bUseTexture = ("SetShaderTexture" \in CallsBefore(drawn'))
            /\ \A n \in texture :
                  uniforms'.objectTexture = FindTextureSlot(block[n].tag)
            /\ \A n \in color : uniforms'.objectColor = block[n].vec]_vars

\* after PrepareScene, the textured torus of line 761 is drawn right after
\* the flat-coloured cylinder of line 752, whose colour is still in the
\* objectColor uniform
C11_Witness ==
    /\ last.op = "Draw"
    /\ drawn.line = 761
    /\ uniforms.bUseTexture = TRUE
    /\ uniforms.objectTexture = FindTextureSlot("blue_vase3")
    /\ uniforms.objectTexture >= 0
    /\ uniforms.objectColor = <<0, 0, 0, 100>>

\* the texture a texture unit is bound to (0: the default texture)
BoundTexture(i) == IF i \in DOMAIN gl'.units THEN gl'.units[i] ELSE 0

\* C12: after BindGLTextures texture unit i is bound to the handle of entry
\* i for every i below the texture count, so the unit FindTextureSlot
\* returns for a tag of the registry holds the handle FindTextureID returns
\* for it, whichever earlier registrations failed.
C12_UnitsHoldEntryHandles ==
    [][last'.op = "BindGLTextures" =>
        /\ \A i \in 0..(m_loadedTextures' - 1) :
              BoundTexture(i) = m_textureIDs'[i].ID
        /\ \A k \in 1..Len(SceneTextures) :
              EntriesWith(SceneTextures[k].tag) # {} =>
                 BoundTexture(FindTextureSlot(SceneTextures[k].tag))
                    = FindTextureID(SceneTextures[k].tag)]_vars

\* blue_vase.jpg was greyscale: its handle 2 was allocated and dropped, and
\* after BindGLTextures the unit of blue_vase3 (slot 1) holds handle 3
C12_Witness ==
    /\ last.op = "BindGLTextures"
    /\ files["blue_vase.jpg"] = 1
    /\ FindTextureSlot("blue_vase") = -1
    /\ FindTextureSlot("blue_vase3") = 1
    /\ FindTextureID("blue_vase3") = 3
    /\ gl.units[1] = 3
    /\ gl.units[FindTextureSlot("porcelain_vase")] = FindTextureID("porcelain_vase")

\* C13: BindGLTextures leaves the entries, the tags and the texture count
\* as they were, and a second call right after a first leaves every texture
\* unit bound as the first call left it.
C13_BindGLTexturesIdempotent ==
    [][last'.op = "BindGLTextures" =>
        /\ m_loadedTextures' = m_loadedTextures
        /\ m_textureIDs' = m_textureIDs
        /\ last.op = "BindGLTextures" => gl'.units = gl.units]_vars

\* BindGLTextures has run twice in a row over a registry of two textures
\* whose units hold two different handles
C13_Witness ==
    /\ last.op = "BindGLTextures"
    /\ last.vec = <<2>>
    /\ m_loadedTextures = 2
    /\ gl.units[0] = m_textureIDs[0].ID
    /\ gl.units[1] = m_textureIDs[1].ID
    /\ gl.units[0] # gl.units[1]

\* C14: PrepareScene runs SetupSceneLights, DefineObjectMaterials, the
\* CreateGLTexture calls of LoadSceneTextures, BindGLTextures once after the
\* last of them, and the mesh loads, in that order, and returns after the
\* mesh loads; in every frame that follows a PrepareScene each texture unit
\* below the texture count holds the handle of its entry.
C14_PrepareSceneOrder ==
    [][/\ last'.op = "SetupSceneLights" => last.op = "PrepareScene"
       /\ last'.op = "DefineObjectMaterials" => last.op = "SetupSceneLights"
       /\ last'.op = "CreateGLTexture" =>
             IF last'.tag = SceneTextures[1].tag
             THEN last.op = "DefineObjectMaterials"
             ELSE last.op = "CreateGLTexture"
       /\ last'.op = "BindGLTextures" =>
             /\ last.op = "CreateGLTexture"
             /\ last.tag = SceneTextures[Len(SceneTextures)].tag
       /\ last'.op = "LoadMeshes" => last.op = "BindGLTextures"
       /\ (pc.fn = "PrepareScene" /\ pc'.fn # "PrepareScene") =>
             last'.op = "LoadMeshes"
       /\ (last'.op \in {"RenderScene", "Draw"} /\ ncalls' >= 1) =>
             \A i \in 0..(m_loadedTextures' - 1) :
                BoundTexture(i) = m_textureIDs'[i].ID]_vars

\* the first object of a frame is drawn after a PrepareScene that read all
\* fourteen images into an empty registry, with unit 13 holding the handle
\* of the last entry
C14_Witness ==
    /\ last.op = "Draw"
    /\ drawn.line = 721
    /\ ncalls = 1
    /\ m_loadedTextures = Len(SceneTextures)
    /\ gl.meshes = 1
    /\ gl.units[m_loadedTextures - 1] = m_textureIDs[m_loadedTextures - 1].ID
    /\ m_textureIDs[m_loadedTextures - 1].tag = "porcelain_vase"

\* the vector v turned about an axis by a multiple of 90 degrees
QuarterTurns(degrees) == (degrees % 360) \div 90
TurnX(v, degrees) ==
    CASE QuarterTurns(degrees) = 0 -> v
      [] QuarterTurns(degrees) = 1 -> <<v[1], -v[3], v[2]>>
      [] QuarterTurns(degrees) = 2 -> <<v[1], -v[2], -v[3]>>
      [] QuarterTurns(degrees) = 3 -> <<v[1], v[3], -v[2]>>
TurnY(v, degrees) ==
    CASE QuarterTurns(degrees) = 0 -> v
      [] QuarterTurns(degrees) = 1 -> <<v[3], v[2], -v[1]>>
      [] QuarterTurns(degrees) = 2 -> <<-v[1], v[2], -v[3]>>
      [] QuarterTurns(degrees) = 3 -> <<-v[3], v[2], v[1]>>
TurnZ(v, degrees) ==
    CASE QuarterTurns(degrees) = 0 -> v
      [] QuarterTurns(degrees) = 1 -> <<-v[2], v[1], v[3]>>
      [] QuarterTurns(degrees) = 2 -> <<-v[1], -v[2], v[3]>>
      [] QuarterTurns(degrees) = 3 -> <<v[2], -v[1], v[3]>>

\* where a model-space point lands when it is scaled, then turned about Z,
\* then about Y, then about X, then moved by the position
Placed(a, point) ==
    LET scaled == <<a[1] * point[1], a[2] * point[2], a[3] * point[3]>>
        turned == TurnX(TurnY(TurnZ(scaled, a[6]), a[5]), a[4])
    IN  <<turned[1] + a[7], turned[2] + a[8], turned[3] + a[9]>>

\* C15: SetTransformations writes to the model uniform the matrix
\* Translate(position) * RotateX * RotateY * RotateZ * Scale(scale), angles in
\* degrees: the matrix sends the origin to the position and each unit axis
\* to the point scaling, the Z turn, the Y turn, the X turn and the move take
\* it to, in that order; for unit scale, zero angles and zero position it is
\* the identity.
C15_ModelIsTranslateRotXYZScale ==
    [][last'.op = "SetTransformations" =>
        LET a == last'.vec
            model == uniforms'.model
            origin == Placed(a, <<0, 0, 0>>)
            axis(j) == Placed(a, [k \in 1..3 |-> IF k = j THEN 1 ELSE 0])
        IN  /\ \A i \in 1..3 : model[i][4] = origin[i]
            /\ \A i \in 1..3, j \in 1..3 : model[i][j] = axis(j)[i] - origin[i]
            /\ model[4] = <<0, 0, 0, 100>>
            /\ a = <<100, 100, 100, 0, 0, 0, 0, 0, 0>> =>
                  model = << <<100, 0, 0, 0>>, <<0, 100, 0, 0>>,
                             <<0, 0, 100, 0>>, <<0, 0, 0, 100>> >>]_vars

\* scale (2, 1, 0.5), angles 90, 0, -90 and position (5, 0, -3): the x axis
\* goes to -y by the Z turn and on to -z by the X turn, doubled
C15_Witness ==
    /\ last.op = "SetTransformations"
    /\ last.vec = <<200, 100, 50, 90, 0, -90, 500, 0, -300>>
    /\ uniforms.model = << <<0, 100, 0, 500>>, <<0, 0, -50, 0>>,
                           <<-200, 0, 0, -300>>, <<0, 0, 0, 100>> >>

\* the six fields of a light source
LightFields ==
    {"position", "ambientColor", "diffuseColor", "specularColor",
     "focalStrength", "specularIntensity"}

\* C16: SetupSceneLights writes all six uniforms of each of the five light
\* slots 0..4 and sets bUseLighting to true.
C16_AllLightUniformsWritten ==
    [][last'.op = "SetupSceneLights" =>
        /\ uniforms'.bUseLighting = TRUE
        /\ \A slot \in 0..4, field \in LightFields :
              \E n \in 1..Len(last'.vec) : last'.vec[n] = <<slot, field>>
        /\ \A slot \in 0..4 : DOMAIN uniforms'.lightSources[slot + 1] = LightFields]_vars

\* the lights are configured: the fifth light, which has no cube, carries
\* its specular colour and the third its focal strength
C16_Witness ==
    /\ last.op = "SetupSceneLights"
    /\ uniforms.bUseLighting = TRUE
    /\ Len(last.vec) = 30
    /\ uniforms.lightSources[5].specularColor = <<30, 30, 30>>
    /\ uniforms.lightSources[5].position = <<-3000, 4000, 3000>>
    /\ uniforms.lightSources[3].focalStrength = 10000
    /\ uniforms.lightSources[1].specularIntensity = 40

\* C17: in a frame that follows PrepareScene the last four draws are box
\* draws, one per light index 0..3 in increasing order; draw i is placed at
\* the position SetupSceneLights wrote to lightSources[i].position and is
\* flat-coloured red, green, blue, yellow for i = 0, 1, 2, 3.
C17_LightCubesFollowLights ==
    [][(last'.op = "Draw" /\ ncalls >= 1) =>
        LET i == pc.i - Len(SceneObjects) - 1
        IN  /\ (pc'.fn # "RenderScene") <=> (i = 3)
            /\ i \in 0..3 =>
                  /\ drawn'.kind = "Box"
                  /\ locals'.positionXYZ = uniforms'.lightSources[i + 1].position
                  /\ \A k \in 1..3 :
                        uniforms'.model[k][4] =
                           uniforms'.lightSources[i + 1].position[k]
                  /\ uniforms'.bUseTexture = FALSE
                  /\ uniforms'.objectColor =
                        << <<100, 0, 0, 100>>, <<0, 100, 0, 100>>,
                           <<0, 0, 100, 100>>, <<100, 100, 0, 100>> >>[i + 1]]_vars

\* a frame after PrepareScene has ended with the yellow cube at the
\* position of light 3
C17_Witness ==
    /\ last.op = "Draw"
    /\ pc = Idle
    /\ ncalls >= 1
    /\ drawn.kind = "Box"
    /\ drawn.line = 1152
    /\ uniforms.objectColor = <<100, 100, 0, 100>>
    /\ locals.positionXYZ = <<2000, 5000, -10000>>
    /\ uniforms.lightSources[4].position = <<2000, 5000, -10000>>
    /\ uniforms.model[3][4] = -10000

\* C18: one DefineObjectMaterials call on an empty catalog leaves exactly
\* five materials tagged shiny, shinyish, porcelaine, dull, void in that
\* order, with (ambientStrength, shininess) (0.7, 50), (0.5, 25), (0.5, 16),
\* (0.6, 1), (0, 0); the first four have ambientColor (0.3, 0.3, 0.3),
\* diffuseColor (0.8, 0.7, 0.2) and specularColor (0.5, 0.5, 0.5), and void
\* has all three colours zero.
C18_FiveSeedMaterials ==
    [][(last'.op = "DefineObjectMaterials" /\ m_objectMaterials = <<>>) =>
        LET catalog == m_objectMaterials'
        IN  /\ [i \in 1..Len(catalog) |-> catalog[i].tag] =
                  <<"shiny", "shinyish", "porcelaine", "dull", "void">>
            /\ [i \in 1..Len(catalog) |->
                     <<catalog[i].ambientStrength, catalog[i].shininess>>] =
                  << <<70, 5000>>, <<50, 2500>>, <<50, 1600>>, <<60, 100>>, <<0, 0>> >>
            /\ \A i \in 1..4 :
                  /\ catalog[i].ambientColor = <<30, 30, 30>>
                  /\ catalog[i].diffuseColor = <<80, 70, 20>>
                  /\ catalog[i].specularColor = <<50, 50, 50>>
            /\ catalog[5].ambientColor = <<0, 0, 0>>
            /\ catalog[5].diffuseColor = <<0, 0, 0>>
            /\ catalog[5].specularColor = <<0, 0, 0>>]_vars

\* the catalog right after its first definition
C18_Witness ==
    /\ last.op = "DefineObjectMaterials"
    /\ ncalls = 1
    /\ Len(m_objectMaterials) = 5
    /\ m_objectMaterials[1].tag = "shiny"
    /\ m_objectMaterials[5].tag = "void"
    /\ m_objectMaterials[4].shininess = 100

\* the GPU handles of the registry entries below the texture count that
\* are allocated
RegisteredHandles ==
    {m_textureIDs[i].ID : i \in 0..(m_loadedTextures - 1)} \cap gl.textures

\* C19: DestroyGLTextures, and the destruction of the SceneManager, release
\* every registered GPU texture handle: none of them is still allocated
\* afterwards.
C19_TeardownReleasesHandles ==
    [][last'.op \in {"DestroyGLTextures", "~SceneManager"} =>
        RegisteredHandles \cap gl'.textures = {}]_vars

\* the slot the first registration of the running PrepareScene went to,
\* when all fourteen of them succeeded
FirstSlot == m_loadedTextures - 14

\* C20 as stated: one PrepareScene attempts exactly 11 registrations, so
\* when every image decodes a registry that was empty holds 11 entries, in
\* slots 0..10.
C20_ElevenRegistrations ==
    (/\ last.op = "BindGLTextures"
     /\ pc.fn = "PrepareScene"
     /\ ncalls = 1
     /\ files = AllGood
     /\ FindTextureSlot("metal_table") = 0)
    => /\ m_loadedTextures = 11
       /\ \A i \in 0..(m_loadedTextures - 1) :
             FindTextureSlot(m_textureIDs[i].tag) \in 0..10

\* C20 amended: one PrepareScene attempts exactly 14 registrations with
\* pairwise distinct tags, so when every image decodes it allocates 14
\* handles and adds 14 entries, in the 14 slots from the texture count at
\* the call upwards: slots 0..13 from a count of 0.
C20_FourteenRegistrations ==
    [][(last'.op = "BindGLTextures" /\ pc.fn = "PrepareScene") =>
        /\ pc.i = Len(BeforeTextures) + 14 + 1
        /\ files = AllGood =>
              /\ Cardinality(gl.textures) = 14 * ncalls
              /\ \A k \in 0..13 :
                    /\ FirstSlot + k \in DOMAIN m_textureIDs
                    /\ m_textureIDs[FirstSlot + k].ID \in gl.textures
              /\ Cardinality({m_textureIDs[FirstSlot + k].tag : k \in 0..13}) = 14
              /\ m_textureIDs[FirstSlot].tag = "metal_table"
              /\ m_textureIDs[FirstSlot + 13].tag = "porcelain_vase"
              /\ FirstSlot = 0 =>
                    \A k \in 0..13 : FindTextureSlot(m_textureIDs[k].tag) = k]_vars

\* the first PrepareScene has registered its fourteen textures into an
\* empty registry and bound them
C20_Witness ==
    /\ last.op = "BindGLTextures"
    /\ pc.fn = "PrepareScene"
    /\ ncalls = 1
    /\ files = AllGood
    /\ m_loadedTextures = 14
    /\ FindTextureSlot("metal_table") = 0
    /\ FindTextureSlot("porcelain_vase") = 13
    /\ gl.units[13] = 14

\* a projective matrix divides by the depth (last row 0 0 -1 0), an affine
\* one does not (last row 0 0 0 1)
IsPerspective(m) == m[4] = <<0, 0, -100, 0>>
IsOrthographic(m) == m[4] = <<0, 0, 0, 100>>

\* C21: a PrepareSceneView call that writes the uniforms writes a
\* projection that reflects the keys of its own frame: orthographic if O is
\* pressed (with or without P), perspective if only P is pressed, and the
\* projection selected before the call if neither is; the projection
\* selected by the construction of the ViewManager is perspective.
C21_ProjectionReflectsKeys ==
    /\ IsPerspective(viewManager.projection)
    /\ [][/\ last'.op = "ViewManager" => IsPerspective(viewManager'.projection)
          /\ (/\ last'.op = "PrepareSceneView"
              /\ ~crashed'
              /\ viewManager.m_pShaderManager # NULL)
             => LET pressed == last'.vec[1]
                IN  /\ "O" \in pressed => IsOrthographic(uniforms'.projection)
                    /\ ("P" \in pressed /\ "O" \notin pressed)
                          => IsPerspective(uniforms'.projection)
                    /\ ("P" \notin pressed /\ "O" \notin pressed)
                          => uniforms'.projection = viewManager.projection]_vars

\* a frame with both P and O pressed has written an orthographic projection
C21_Witness ==
    /\ last.op = "PrepareSceneView"
    /\ {"P", "O"} \subseteq last.vec[1]
    /\ IsOrthographic(uniforms.projection)
    /\ bOrthographicProjection

\* C22: the first mouse-position event records its own X and Y as the last
\* position and makes no camera call, and the event that follows it moves
\* the camera by the difference of the two cursor positions
\* (xOffset = x2 - x1, yOffset = y1 - y2).
C22_FirstMouseEventRecordsPosition ==
    [][last'.op = "Mouse_Position_Callback" =>
          /\ gFirstMouse =>
                /\ gLastX' = last'.vec[1]
                /\ gLastY' = last'.vec[2]
                /\ last'.tag = ""
          /\ (/\ ~gFirstMouse
              /\ last.op = "Mouse_Position_Callback"
              /\ last.tag = "")
             => /\ last'.vec[3] = last'.vec[1] - last.vec[1]
                /\ last'.vec[4] = last.vec[2] - last'.vec[2]]_vars

\* C23: once the catalog is defined, every SetShaderMaterial call of
\* RenderScene names a defined material, and the draw that follows uses the
\* material its block named.
C23_MaterialTagsDefined ==
    [][(last'.op = "Draw" /\ Len(m_objectMaterials) > 0) =>
          LET block == ObjectBlock(pc.i)
          IN  \A n \in 1..Len(block) :
                 block[n].op = "SetShaderMaterial" =>
                    /\ MaterialsWith(block[n].tag) # {}
                    /\ \E k \in MaterialsWith(block[n].tag) :
                          uniforms'.material = MaterialFields(m_objectMaterials[k])]_vars

\* the tags LoadSceneTextures registers
SceneTags == {SceneTextures[k].tag : k \in 1..Len(SceneTextures)}

\* C24: every SetShaderTexture call of RenderScene names a tag that
\* LoadSceneTextures registers, so in a frame after a PrepareScene whose
\* image loads all succeeded the objectTexture sampler receives the slot of
\* the tag the block named and never -1.
C24_TextureTagsRegistered ==
    [][(last'.op = "Draw" /\ files = AllGood /\ gl.meshes > 0) =>
          LET block == ObjectBlock(pc.i)
          IN  \A n \in 1..Len(block) :
                 block[n].op = "SetShaderTexture" =>
                    /\ block[n].tag \in SceneTags
                    /\ uniforms'.objectTexture # -1
                    /\ EntriesWith(block[n].tag) # {}
                    /\ uniforms'.objectTexture \in EntriesWith(block[n].tag)]_vars

\* the statements of the k-th block of RenderScene that assign the angle
AssignedIn(angle, k) ==
    {n \in 1..Len(ObjectBlock(k)) : ObjectBlock(k)[n].op = angle}

\* the value the latest assignment to the rotation angle in the blocks
\* 1..k of RenderScene gives it, 0 (its initialiser) when there is none
LatestAngle(angle, k) ==
    LET blocks == {j \in 1..k : AssignedIn(angle, j) # {}}
    IN  IF blocks = {} THEN 0
        ELSE LET j == CHOOSE j \in blocks : \A i \in blocks : i <= j
                 n == CHOOSE n \in AssignedIn(angle, j) :
                         \A i \in AssignedIn(angle, j) : i <= n
             IN  ObjectBlock(j)[n].num

\* the arguments of the SetTransformations call that led to the draw d
TransformOf(d) ==
    LET n == CHOOSE n \in 1..Len(d.calls) : d.calls[n].op = "SetTransformations"
    IN  d.calls[n].args

\* the statements of the block that come before its SetTransformations call
BeforeTransform(block) ==
    LET n == CHOOSE n \in 1..Len(block) : block[n].op = "SetTransformations"
    IN  {block[i].op : i \in 1..(n - 1)}

\* C25: each draw of RenderScene receives, for every rotation angle, the
\* value of the latest assignment to it since the entry of the call, 0 when
\* there is none, whether or not the draw's own block assigns it: the box
\* drawn at line 965 receives X = 180, Y = 0, Z = 90 and the four light
\* cubes the angles of the last button cylinder; scale and position are
\* assigned in every block.
C25_AnglesPersistAcrossBlocks ==
    [][last'.op = "Draw" =>
          LET t == TransformOf(drawn')
              block == ObjectBlock(pc.i)
              button == Len(SceneObjects)
          IN  /\ t[4] = LatestAngle("XrotationDegrees", pc.i)
              /\ t[5] = LatestAngle("YrotationDegrees", pc.i)
              /\ t[6] = LatestAngle("ZrotationDegrees", pc.i)
              /\ {"scaleXYZ", "positionXYZ"} \subseteq BeforeTransform(block)
              /\ drawn'.line = 965 => <<t[4], t[5], t[6]>> = <<180, 0, 90>>
              /\ pc.i > button =>
                    <<t[4], t[5], t[6]>> = <<LatestAngle("XrotationDegrees", button),
                                             LatestAngle("YrotationDegrees", button),
                                             LatestAngle("ZrotationDegrees", button)>>]_vars

\* the box whose block assigns no angle has been drawn with the angles the
\* prism before it left
C25_Witness ==
    /\ last.op = "Draw"
    /\ drawn.line = 965
    /\ AssignedIn("XrotationDegrees", pc.i - 1) = {}
    /\ SubSeq(TransformOf(drawn), 4, 6) = <<180, 0, 90>>

\* the vector the block assigns to the local variable
AssignedVec(block, var) ==
    LET n == CHOOSE n \in 1..Len(block) : block[n].op = var
    IN  block[n].vec

\* the setter calls of the k-th block of RenderScene with their arguments,
\* read off the statement list: they depend on nothing but k and, for the
\* light cubes, lightPositions
SetterCalls(k) ==
    LET block == ObjectBlock(k)
        setters == SelectSeq(block, LAMBDA s :
                      s.op \in {"SetTransformations", "SetShaderMaterial",
                                "SetShaderTexture", "SetShaderColor"})
    IN  [n \in 1..Len(setters) |->
            [op |-> setters[n].op, tag |-> setters[n].tag,
             args |-> IF setters[n].op = "SetTransformations"
                      THEN AssignedVec(block, "scaleXYZ")
                           \o <<LatestAngle("XrotationDegrees", k),
                                LatestAngle("YrotationDegrees", k),
                                LatestAngle("ZrotationDegrees", k)>>
                           \o AssignedVec(block, "positionXYZ")
                      ELSE setters[n].vec]]

\* C26: RenderScene changes neither the texture registry, the material
\* catalog nor lightPositions, and the setter calls (with their arguments)
\* and the draw call of each of its blocks are the same in every frame,
\* whatever uniforms and locals the previous frame left behind.
C26_RenderSceneDeterministic ==
    [][last'.op \in {"RenderScene", "Draw"} =>
          /\ UNCHANGED <<m_loadedTextures, m_textureIDs, m_objectMaterials,
                         lightPositions>>
          /\ last'.op = "Draw" =>
                LET block == ObjectBlock(pc.i)
                    draw == block[Len(block)]
                IN  drawn' = [kind |-> draw.tag, line |-> draw.line,
                              calls |-> SetterCalls(pc.i)]]_vars

\* the first draw of a frame that follows another frame: the colour
\* uniform still holds the colour of the last light cube
C26_Witness ==
    /\ last.op = "Draw"
    /\ pc = At("RenderScene", 2)
    /\ drawn.calls = SetterCalls(1)
    /\ uniforms.objectColor = cubeColors[4] \o <<100>>

\* C27: while a ViewManager exists, bOrthographicProjection is true exactly
\* when its projection matrix was last assigned by SetOrthographic.
C27_FlagTracksProjection ==
    viewManager # nullptr =>
        (bOrthographicProjection <=> IsOrthographic(viewManager.projection))

\* C28: no call is ever made through g_pCamera while it is null, whatever
\* the order of the mouse callbacks, the PrepareSceneView frames and the
\* deletion and construction of the ViewManager.
C28_CameraNeverUsedWhileNull ==
    /\ last.tag \notin {"nullptr->ProcessMouseMovement",
                        "nullptr->ProcessMouseScroll",
                        "nullptr->GetViewMatrix"}
    /\ ~crashed

\* the methods of the SceneManager that write uniforms
UniformWriters ==
    {"SetTransformations", "SetShaderColor", "SetShaderTexture",
     "SetTextureUVScale", "SetShaderMaterial", "SetupSceneLights"}

\* C29: with a null shader manager, every method that writes uniforms
\* returns without writing one and without a call through the null pointer.
C29_NullShaderManagerIsSkipped ==
    [][(m_pShaderManager = NULL /\ last'.op \in UniformWriters) =>
          /\ uniforms' = uniforms
          /\ ~crashed'
          /\ last'.tag # "nullptr->setBoolValue"
          /\ last'.op = "SetShaderMaterial" => last'.vec = <<>>]_vars

\* C30: a CreateGLTexture call that returns leaves no decoded pixel buffer
\* allocated, and every texture object it generated is either recorded in
\* the registry or no longer allocated.
C30_CreateGLTextureLeaksNothing ==
    [][(last'.op = "CreateGLTexture" /\ ~crashed') =>
          /\ gl'.images = gl.images
          /\ \A h \in gl'.textures \ gl.textures :
                \E i \in DOMAIN m_textureIDs' : m_textureIDs'[i].ID = h]_vars

====
